---- MODULE Spec2Model ----
(***************************************************************************)
(* Model of the two platform adapters of crates/goose/src/agents:          *)
(* CoreClient (core_extension.rs) and ExtensionManagerClient               *)
(* (extension_manager_extension.rs).  Each adapter call is a sequence of   *)
(* steps, one per await of a backing component; the Extension Manager,     *)
(* the Tool Route Manager, the search index and the extension catalog are  *)
(* external collaborators, modelled by the interface the adapters use.     *)
(* Strings are sequences of tokens, so that format!() is concatenation.    *)
(***************************************************************************)
EXTENDS Integers, Sequences, FiniteSets, TLC

VARIABLES
    emRef,            \* context.extension_manager: "none" | "owned" | "dropped"
    trmRef,           \* context.tool_route_manager: "none" | "owned" | "dropped"
    routerFunctional, \* what is_router_functional() answers
    routerSelector,   \* whether get_router_tool_selector() answers Some
    faults,           \* backing components whose calls currently fail
    strict,           \* the registry rejects a redundant add / remove
    registry,         \* extensions installed in the Extension Manager
    index,            \* extensions the search index holds tools for
    active,           \* the callers that issue calls
    pc,               \* per caller: the await its call is suspended at
    req,              \* per caller: the current (or last) request
    resp,             \* per caller: the result of the last completed call
    held,             \* per caller: strong handles its call holds
    calls,            \* per caller: the backing components' answers to this call
    base,             \* per caller: the call just before, if it was the same request
    changes           \* how often the runtime has changed the components

envVars  == <<emRef, trmRef, routerFunctional, routerSelector, faults, strict>>
dataVars == <<registry, index>>
runVars  == <<pc, req, resp, held, calls>>
histVars == <<base, changes>>
vars == <<emRef, trmRef, routerFunctional, routerSelector, faults, strict,
          registry, index, active, pc, req, resp, held, calls,
          base, changes>>

----------------------------------------------------------------------------
(* Bounds and input sets *)

NumCallers == 2
MaxChanges == 2
Callers == 1..NumCallers

ExtNames == {"developer", "ghost"}
Catalog == {"developer"}
ResourceExts == {"developer"}

----------------------------------------------------------------------------
(* Tool names *)

READ_RESOURCE_TOOL_NAME == "read_resource"
LIST_RESOURCES_TOOL_NAME == "list_resources"
SEARCH_TOOLS_TOOL_NAME == "search_tools"
SEARCH_AVAILABLE_EXTENSIONS_TOOL_NAME == "search_available_extensions"
MANAGE_EXTENSIONS_TOOL_NAME == "manage_extensions"

CoreToolNames ==
    {LIST_RESOURCES_TOOL_NAME, READ_RESOURCE_TOOL_NAME, SEARCH_TOOLS_TOOL_NAME}
ExtensionManagerToolNames ==
    {SEARCH_AVAILABLE_EXTENSIONS_TOOL_NAME, MANAGE_EXTENSIONS_TOOL_NAME}
RecognizedNames(adapter) ==
    IF adapter = "core" THEN CoreToolNames ELSE ExtensionManagerToolNames

ToolNameInputs == CoreToolNames \cup ExtensionManagerToolNames \cup {"bogus"}
Adapters == {"core", "extmgr"}

----------------------------------------------------------------------------
(* Arguments: Option<JsonObject> *)

NoArgs == [kind |-> "none", action |-> "", extension_name |-> ""]
BadArgs == [kind |-> "object", action |-> "", extension_name |-> ""]
ManageArgs(a, n) == [kind |-> "object", action |-> a, extension_name |-> n]
ActionInputs == {"enable", "disable", "restart"}
ArgInputs ==
    {NoArgs, BadArgs} \cup {ManageArgs(a, n) : a \in ActionInputs, n \in ExtNames}

\* the argument objects tried with each tool name
ArgsFor(name) ==
    CASE name = "manage_extensions" -> ArgInputs
      [] name = "bogus" -> {NoArgs, BadArgs}
      [] OTHER -> {NoArgs}

ManageExtensionAction == {"enable", "disable"}

\* serde_json::from_value::<ManageExtensionsParams>: both fields are required
\* and action must be a lowercase variant name.
ManageExtensionsParams(args) ==
    IF args.action = "" \/ args.extension_name = ""
    THEN [ok |-> FALSE, error |-> <<"missing field">>]
    ELSE IF args.action \notin ManageExtensionAction
    THEN [ok |-> FALSE,
          error |-> <<"unknown variant ", args.action,
                      ", expected enable or disable">>]
    ELSE [ok |-> TRUE, action |-> args.action,
          extension_name |-> args.extension_name]

----------------------------------------------------------------------------
(* Error values and their Display *)

UnknownTool(n) == [kind |-> "UnknownTool", text |-> <<n>>]
ManagerUnavailable == [kind |-> "ManagerUnavailable", text |-> << >>]
ToolRouteManagerUnavailable ==
    [kind |-> "ToolRouteManagerUnavailable", text |-> << >>]
MissingParameter(n) == [kind |-> "MissingParameter", text |-> <<n>>]
InvalidAction(a) == [kind |-> "InvalidAction", text |-> <<a>>]
OperationFailed(m) == [kind |-> "OperationFailed", text |-> m]
DeserializationError(m) == [kind |-> "DeserializationError", text |-> m]

CoreToolError(e) ==
    CASE e.kind = "UnknownTool" -> <<"Unknown tool: ">> \o e.text
      [] e.kind = "ManagerUnavailable" -> <<"Extension manager not available">>
      [] e.kind = "ToolRouteManagerUnavailable" ->
             <<"Tool route manager not available">>
      [] e.kind = "OperationFailed" -> <<"Operation failed: ">> \o e.text
      [] e.kind = "DeserializationError" ->
             <<"Failed to deserialize parameters: ">> \o e.text

ExtensionManagerToolError(e) ==
    CASE e.kind = "UnknownTool" -> <<"Unknown tool: ">> \o e.text
      [] e.kind = "ManagerUnavailable" -> <<"Extension manager not available">>
      [] e.kind = "MissingParameter" ->
             <<"Missing required parameter: ">> \o e.text
      [] e.kind = "InvalidAction" ->
             <<"Invalid action: ">> \o e.text
                 \o <<". Must be 'enable' or 'disable'">>
      [] e.kind = "OperationFailed" ->
             <<"Extension operation failed: ">> \o e.text
      [] e.kind = "DeserializationError" ->
             <<"Failed to deserialize parameters: ">> \o e.text

Display(adapter, e) ==
    IF adapter = "core" THEN CoreToolError(e) ELSE ExtensionManagerToolError(e)

\* ErrorData messages built by manage_extensions_impl
ManagerGoneMessage == <<"Extension manager is no longer available">>
IndexFailureMessage(e) == <<"Failed to update LLM index: ">> \o e
NotFoundMessage(n) ==
    <<"Extension '", n,
      "' not found. Please check the extension name and try again.">>
DisabledMessage(n) ==
    <<"The extension '", n, "' has been disabled successfully">>
InstalledMessage(n) ==
    <<"The extension '", n, "' has been installed successfully">>

----------------------------------------------------------------------------
(* Results *)

NoResp == [transport |-> "none", is_error |-> FALSE, content |-> << >>,
           tools |-> << >>]
TransportClosed == [transport |-> "closed", is_error |-> FALSE,
                    content |-> << >>, tools |-> << >>]
ListToolsResult(ts) == [transport |-> "ok", is_error |-> FALSE,
                        content |-> << >>, tools |-> ts]
Success(content) == [transport |-> "ok", is_error |-> FALSE,
                     content |-> content, tools |-> << >>]
\* mutant: the error text is returned without the is_error flag
FailureUnflagged(adapter, e) ==
    [transport |-> "ok", is_error |-> FALSE,
     content |-> Display(adapter, e), tools |-> << >>]

Failure(adapter, e) == [transport |-> "ok", is_error |-> TRUE,
                        content |-> Display(adapter, e), tools |-> << >>]

\* Cancellation tokens: the one the caller supplies, the one that
\* CancellationToken::default() creates, and none
CallerToken == "caller"
DefaultToken == "default"
NoToken == "none"

Request(adapter, op, name, args) ==
    [adapter |-> adapter, op |-> op, name |-> name, args |-> args,
     \* history: was the named extension installed when the call started
     enabledAtStart |-> args.extension_name \in registry,
     \* history: how often the backing components had changed by then
     changesAtStart |-> changes,
     \* the cancellation token the caller hands in with the call
     token |-> CallerToken]
NoReq == [adapter |-> "none", op |-> "none", name |-> "", args |-> NoArgs,
          enabledAtStart |-> FALSE, changesAtStart |-> 0, token |-> NoToken]
NoPrev == [req |-> NoReq, resp |-> NoResp]

\* One use of a backing component by an adapter call, and its answer
Call(target, op, name, ok) ==
    [target |-> target, op |-> op, name |-> name, ok |-> ok, token |-> NoToken]
\* a call that hands the component a cancellation token
CallWithToken(target, op, token, ok) ==
    [target |-> target, op |-> op, name |-> "", ok |-> ok, token |-> token]
Upgrade(target, live) == Call(target, "upgrade", "", live)
IsRouterFunctional(answer) == Call("router", "is_router_functional", "", answer)
GetRouterToolSelector(answer) == Call("router", "get_router_tool_selector", "", answer)

----------------------------------------------------------------------------
(* Backing components, by the interface the adapters use *)

FaultKinds == {"registry", "index"}

\* Weak::upgrade: the component is alive while the runtime or a call holds it
ExtensionManagerLive ==
    \/ emRef = "owned"
    \/ emRef = "dropped" /\ \E q \in Callers : "em" \in held[q]
ToolRouteManagerLive ==
    \/ trmRef = "owned"
    \/ trmRef = "dropped" /\ \E q \in Callers : "trm" \in held[q]

get_extension_by_name(n) == n \in Catalog

supports_resources == registry \cap ResourceExts # {}

RegistryError == <<"registry unavailable">>
NotEnabledError(n) == <<"extension ", n, " is not enabled">>
AlreadyEnabledError(n) == <<"extension ", n, " is already enabled">>
IndexError == <<"index unavailable">>
BackendError == <<"backend error">>
SubmitError == <<"search submission failed">>
ResolveError == <<"search resolution failed">>

\* ExtensionManager::remove_extension(name)
remove_extension(n) ==
    IF "registry" \in faults THEN [ok |-> FALSE, error |-> RegistryError]
    ELSE IF strict /\ n \notin registry
    THEN [ok |-> FALSE, error |-> NotEnabledError(n)]
    ELSE [ok |-> TRUE, registry |-> registry \ {n}]

\* ExtensionManager::add_extension(config)
add_extension(n) ==
    IF "registry" \in faults THEN [ok |-> FALSE, error |-> RegistryError]
    ELSE IF strict /\ n \in registry
    THEN [ok |-> FALSE, error |-> AlreadyEnabledError(n)]
    ELSE [ok |-> TRUE, registry |-> registry \cup {n}]

\* ToolRouterIndexManager::update_extension_tools(selector, manager, name, action)
update_extension_tools(n, action) ==
    IF "index" \in faults THEN [ok |-> FALSE, error |-> IndexError]
    ELSE [ok |-> TRUE,
          index |-> IF action = "remove" THEN index \ {n} ELSE index \cup {n}]

----------------------------------------------------------------------------
(* Initial state: the adapters are constructed over a context whose
   references are set once; nothing is installed or indexed yet. *)

Init ==
    /\ emRef \in {"none", "owned"}
    /\ trmRef \in {"none", "owned"}
    /\ routerFunctional \in (IF trmRef = "owned" THEN BOOLEAN ELSE {FALSE})
    /\ routerSelector = routerFunctional
    /\ faults = {}
    /\ strict \in BOOLEAN
    /\ registry = {}
    /\ index = {}
    /\ active = {1}
    /\ pc = [p \in Callers |-> "idle"]
    /\ req = [p \in Callers |-> NoReq]
    /\ resp = [p \in Callers |-> NoResp]
    /\ held = [p \in Callers |-> {}]
    /\ calls = [p \in Callers |-> << >>]
    /\ base = [p \in Callers |-> NoPrev]
    /\ changes = 0

----------------------------------------------------------------------------
(* The agent runtime: it owns the backing components and their state *)

\* the runtime acts between calls and while calls are suspended; a caller
\* that has been handed a result has taken it by then
Disturb ==
    /\ changes < MaxChanges
    /\ changes' = changes + 1
    /\ \A p \in Callers : pc[p] = "idle" => resp[p] = NoResp
    /\ base' = [p \in Callers |-> NoPrev]
    /\ UNCHANGED <<dataVars, active, runVars, strict>>

DropExtensionManager ==
    /\ emRef = "owned"
    /\ emRef' = "dropped"
    /\ UNCHANGED <<trmRef, routerFunctional, routerSelector, faults>>
    /\ Disturb

DropToolRouteManager ==
    /\ trmRef = "owned"
    /\ trmRef' = "dropped"
    /\ UNCHANGED <<emRef, routerFunctional, routerSelector, faults>>
    /\ Disturb

RouterChange ==
    /\ ToolRouteManagerLive
    /\ \E f \in BOOLEAN, s \in BOOLEAN :
         /\ <<f, s>> # <<routerFunctional, routerSelector>>
         /\ routerFunctional' = f
         /\ routerSelector' = s
    /\ UNCHANGED <<emRef, trmRef, faults>>
    /\ Disturb

FaultChange ==
    /\ ExtensionManagerLive
    /\ \E fs \in SUBSET FaultKinds :
         /\ fs # faults
         /\ faults' = fs
    /\ UNCHANGED <<emRef, trmRef, routerFunctional, routerSelector>>
    /\ Disturb

----------------------------------------------------------------------------
(* Steps of an adapter call *)

Frame == UNCHANGED <<envVars, active, changes>>

SameRequest(a, b) ==
    /\ a.adapter = b.adapter
    /\ a.op = b.op
    /\ a.name = b.name
    /\ a.args = b.args

\* a call starts: the caller is idle, and has taken the result of its last
\* call unless it repeats that call at once
Begin(p, rq) ==
    /\ p \in active
    /\ pc[p] = "idle"
    /\ resp[p] = NoResp \/ SameRequest(req[p], rq)
    /\ req' = [req EXCEPT ![p] = rq]
    /\ base' = [q \in Callers |->
                  IF q = p /\ resp[p] # NoResp /\ SameRequest(req[p], rq)
                         /\ \A o \in Callers : pc[o] = "idle"
                  THEN [req |-> req[p], resp |-> resp[p]] ELSE NoPrev]

\* a call resumes from the await it was suspended at
Resume(p, at) ==
    /\ pc[p] = at
    /\ UNCHANGED <<req, base>>

\* the call suspends at the next await, holding the handles h
Goto(p, at, h, cs) ==
    /\ pc' = [pc EXCEPT ![p] = at]
    /\ held' = [held EXCEPT ![p] = h]
    /\ calls' = [calls EXCEPT ![p] = cs]
    /\ resp' = [resp EXCEPT ![p] = NoResp]

\* the call returns r
Finish(p, rq, r, h, cs) ==
    /\ pc' = [pc EXCEPT ![p] = "idle"]
    /\ held' = [held EXCEPT ![p] = {}]
    /\ calls' = [calls EXCEPT ![p] = cs]
    /\ resp' = [resp EXCEPT ![p] = r]

\* the caller takes the result it was handed
Consume(p) ==
    /\ pc[p] = "idle"
    /\ resp[p] # NoResp
    /\ req' = [req EXCEPT ![p] = NoReq]
    /\ resp' = [resp EXCEPT ![p] = NoResp]
    /\ calls' = [calls EXCEPT ![p] = << >>]
    /\ base' = [base EXCEPT ![p] = NoPrev]
    /\ UNCHANGED <<pc, held, changes, envVars, dataVars, active>>

----------------------------------------------------------------------------
(* Protocol operations neither adapter supports *)

ProtocolOps == {"list_resources", "read_resource", "list_prompts", "get_prompt"}

\* mutant: the resource operations are handed to a live Extension Manager
UnsupportedForwardsResources(p) ==
    \E adapter \in Adapters, op \in ProtocolOps :
        LET rq == Request(adapter, op, "", NoArgs) IN
        /\ Begin(p, rq)
        /\ IF op \in {"list_resources", "read_resource"} /\ ExtensionManagerLive
           THEN Finish(p, rq, Success(<<"resources">>), {},
                       <<Upgrade("em", TRUE),
                         CallWithToken("em", op, rq.token, TRUE)>>)
           ELSE Finish(p, rq, TransportClosed, {}, << >>)
        /\ Frame
        /\ UNCHANGED dataVars

\* McpClientTrait::list_resources / read_resource / list_prompts / get_prompt
Unsupported(p) ==
    \E adapter \in Adapters, op \in ProtocolOps :
        LET rq == Request(adapter, op, "", NoArgs) IN
        /\ Begin(p, rq)
        /\ Finish(p, rq, TransportClosed, {}, << >>)
        /\ Frame
        /\ UNCHANGED dataVars

----------------------------------------------------------------------------
(* CoreClient *)

\* mutant: search_tools is listed whether or not the upgrade succeeded
CoreGetToolsSearchAlways(em, trm) ==
    (IF em THEN <<LIST_RESOURCES_TOOL_NAME, READ_RESOURCE_TOOL_NAME>> ELSE << >>)
    \o <<SEARCH_TOOLS_TOOL_NAME>>

\* mutant: read_resource is left out of the resource tools
CoreGetToolsListOnly(em, trm) ==
    (IF em THEN <<LIST_RESOURCES_TOOL_NAME>> ELSE << >>)
    \o (IF trm THEN <<SEARCH_TOOLS_TOOL_NAME>> ELSE << >>)

\* CoreClient::get_tools: em says whether the Extension Manager was reached
\* and answered supports_resources() = TRUE, trm whether the Tool Route
\* Manager was reached.
CoreGetTools(em, trm) ==
    (IF em THEN <<LIST_RESOURCES_TOOL_NAME, READ_RESOURCE_TOOL_NAME>> ELSE << >>)
    \o (IF trm THEN <<SEARCH_TOOLS_TOOL_NAME>> ELSE << >>)

\* mutant: the list computed by the previous call is handed out again
CoreListToolsMemoized(p) ==
    LET rq == Request("core", "list_tools", "", NoArgs) IN
    /\ Begin(p, rq)
    /\ IF resp[p] # NoResp
       THEN Finish(p, rq, resp[p], {}, << >>)
       ELSE IF ExtensionManagerLive
       THEN Goto(p, "supports_resources", {"em"}, <<Upgrade("em", TRUE)>>)
       ELSE Finish(p, rq, ListToolsResult(CoreGetTools(FALSE, ToolRouteManagerLive)),
                   {}, <<Upgrade("em", FALSE), Upgrade("trm", ToolRouteManagerLive)>>)
    /\ Frame
    /\ UNCHANGED dataVars

\* CoreClient::list_tools up to the await of supports_resources
CoreListTools(p) ==
    LET rq == Request("core", "list_tools", "", NoArgs) IN
    /\ Begin(p, rq)
    /\ IF ExtensionManagerLive
       THEN Goto(p, "supports_resources", {"em"}, <<Upgrade("em", TRUE)>>)
       ELSE Finish(p, rq, ListToolsResult(CoreGetTools(FALSE, ToolRouteManagerLive)),
                   {}, <<Upgrade("em", FALSE), Upgrade("trm", ToolRouteManagerLive)>>)
    /\ Frame
    /\ UNCHANGED dataVars

CoreSupportsResources(p) ==
    /\ Resume(p, "supports_resources")
    /\ Finish(p, req[p],
              ListToolsResult(CoreGetTools(supports_resources, ToolRouteManagerLive)),
              {"em"},
              calls[p] \o <<Call("em", "supports_resources", "", supports_resources),
                            Upgrade("trm", ToolRouteManagerLive)>>)
    /\ Frame
    /\ UNCHANGED dataVars

\* mutant: the default arm of the match goes to the search handler
CoreDispatchDefaultSearch(name) ==
    CASE name = LIST_RESOURCES_TOOL_NAME -> "list_resources"
      [] name = READ_RESOURCE_TOOL_NAME -> "read_resource"
      [] OTHER -> "search_tools"

\* CoreClient::call_tool, the match on the name
CoreDispatch(name) ==
    CASE name = LIST_RESOURCES_TOOL_NAME -> "list_resources"
      [] name = READ_RESOURCE_TOOL_NAME -> "read_resource"
      [] name = SEARCH_TOOLS_TOOL_NAME -> "search_tools"
      [] OTHER -> "unknown"

\* mutant: the handle of an earlier resolution is kept and used again
CoreResourceHandlerCached(p, rq, at) ==
    IF emRef # "none"
    THEN Goto(p, at, {"em"}, <<Upgrade("em", TRUE)>>)
    ELSE Finish(p, rq, Failure("core", ManagerUnavailable), {},
                <<Upgrade("em", FALSE)>>)

\* mutant: a resource tool that is not advertised is not dispatched
CoreResourceHandlerGated(p, rq, at) ==
    IF ExtensionManagerLive /\ ~supports_resources
    THEN Finish(p, rq, Failure("core", UnknownTool(rq.name)), {},
                <<Upgrade("em", TRUE)>>)
    ELSE IF ExtensionManagerLive
    THEN Goto(p, at, {"em"}, <<Upgrade("em", TRUE)>>)
    ELSE Finish(p, rq, Failure("core", ManagerUnavailable), {},
                <<Upgrade("em", FALSE)>>)

\* handle_list_resources / handle_read_resource up to the await of the manager
CoreResourceHandler(p, rq, at) ==
    IF ExtensionManagerLive
    THEN Goto(p, at, {"em"}, <<Upgrade("em", TRUE)>>)
    ELSE Finish(p, rq, Failure("core", ManagerUnavailable), {},
                <<Upgrade("em", FALSE)>>)

\* handle_llm_search up to the await of dispatch_route_search_tool
CoreSearchHandler(p, rq) ==
    IF ToolRouteManagerLive
    THEN Goto(p, "search_submit", {"trm"}, <<Upgrade("trm", TRUE)>>)
    ELSE Finish(p, rq, Failure("core", ToolRouteManagerUnavailable), {},
                <<Upgrade("trm", FALSE)>>)

CoreCallTool(p) ==
    \E name \in ToolNameInputs : \E args \in ArgsFor(name) :
        LET rq == Request("core", "call_tool", name, args)
            handler == CoreDispatch(name)
        IN
        /\ Begin(p, rq)
        /\ CASE handler = "list_resources" ->
                    CoreResourceHandler(p, rq, "list_resources")
             [] handler = "read_resource" ->
                    CoreResourceHandler(p, rq, "read_resource")
             [] handler = "search_tools" -> CoreSearchHandler(p, rq)
             [] OTHER ->
                    Finish(p, rq, Failure("core", UnknownTool(name)), {}, << >>)
        /\ Frame
        /\ UNCHANGED dataVars

\* extension_manager.list_resources(params, token).await and the match on it
ListResourcesReturn(p) ==
    /\ Resume(p, "list_resources")
    /\ \E ok \in BOOLEAN :
         Finish(p, req[p],
                IF ok THEN Success(<<"resources">>)
                ELSE Failure("core", OperationFailed(
                         <<"Failed to list resources: ">> \o BackendError)),
                held[p],
                Append(calls[p],
                       CallWithToken("em", "list_resources", DefaultToken, ok)))
    /\ Frame
    /\ UNCHANGED dataVars

\* extension_manager.read_resource(params, token).await and the match on it
ReadResourceReturn(p) ==
    /\ Resume(p, "read_resource")
    /\ \E ok \in BOOLEAN :
         Finish(p, req[p],
                IF ok THEN Success(<<"resource">>)
                ELSE Failure("core", OperationFailed(
                         <<"Failed to read resource: ">> \o BackendError)),
                held[p],
                Append(calls[p],
                       CallWithToken("em", "read_resource", DefaultToken, ok)))
    /\ Frame
    /\ UNCHANGED dataVars

\* dispatch_route_search_tool(arguments).await: the submission
SearchSubmitReturn(p) ==
    /\ Resume(p, "search_submit")
    /\ \E ok \in BOOLEAN :
         LET cs == Append(calls[p], Call("trm", "submit", "", ok)) IN
         IF ok
         THEN Goto(p, "search_resolve", held[p], cs)
         ELSE Finish(p, req[p], Failure("core", OperationFailed(SubmitError)),
                     held[p], cs)
    /\ Frame
    /\ UNCHANGED dataVars

\* mutant: a failed resolution is reported with a text of the adapter
SearchResolveReturnRewordsError(p) ==
    /\ Resume(p, "search_resolve")
    /\ \E ok \in BOOLEAN :
         Finish(p, req[p],
                IF ok THEN Success(<<"tools">>)
                ELSE Failure("core", OperationFailed(
                         <<"Failed to resolve search: ">> \o ResolveError)),
                held[p],
                Append(calls[p], Call("trm", "resolve", "", ok)))
    /\ Frame
    /\ UNCHANGED dataVars

\* tool_result.result.await: the resolution of the pending handle
SearchResolveReturn(p) ==
    /\ Resume(p, "search_resolve")
    /\ \E ok \in BOOLEAN :
         Finish(p, req[p],
                IF ok THEN Success(<<"tools">>)
                ELSE Failure("core", OperationFailed(ResolveError)),
                held[p],
                Append(calls[p], Call("trm", "resolve", "", ok)))
    /\ Frame
    /\ UNCHANGED dataVars

----------------------------------------------------------------------------
(* ExtensionManagerClient *)

ExtensionManagerGetTools ==
    <<SEARCH_AVAILABLE_EXTENSIONS_TOOL_NAME, MANAGE_EXTENSIONS_TOOL_NAME>>

ExtensionManagerListTools(p) ==
    LET rq == Request("extmgr", "list_tools", "", NoArgs) IN
    /\ Begin(p, rq)
    /\ Finish(p, rq, ListToolsResult(ExtensionManagerGetTools), {}, << >>)
    /\ Frame
    /\ UNCHANGED dataVars

\* ExtensionManagerClient::call_tool, the match on the name
ExtensionManagerDispatch(name) ==
    CASE name = SEARCH_AVAILABLE_EXTENSIONS_TOOL_NAME -> "search_available_extensions"
      [] name = MANAGE_EXTENSIONS_TOOL_NAME -> "manage_extensions"
      [] OTHER -> "unknown"

\* handle_manage_extensions maps the ErrorData of manage_extensions_impl
ManageError(message) == Failure("extmgr", OperationFailed(message))

\* mutant: the index is told to add whatever the requested action
SelectorActionAlwaysAdd(action) == "add"

\* the index action derived from the requested action
SelectorAction(action) == IF action = "disable" THEN "remove" ELSE "add"

\* mutant: a name the catalog does not know is installed all the same
ApplyChangeWithoutLookup(p, rq, h, cs) ==
    LET n == rq.args.extension_name IN
    IF rq.args.action = "disable"
    THEN Goto(p, "remove", h, cs)
    ELSE Goto(p, "install", h,
              Append(cs, Call("catalog", "lookup", n, get_extension_by_name(n))))

\* mutant: Disable goes on to the install, Enable to the removal
ApplyChangeArmsSwapped(p, rq, h, cs) ==
    LET n == rq.args.extension_name IN
    IF rq.args.action = "enable"
    THEN Goto(p, "remove", h, cs)
    ELSE IF get_extension_by_name(n)
    THEN Goto(p, "install", h, Append(cs, Call("catalog", "lookup", n, TRUE)))
    ELSE Finish(p, rq, ManageError(NotFoundMessage(n)), h,
                Append(cs, Call("catalog", "lookup", n, FALSE)))

\* manage_extensions_impl from the end of the index pre-sync to the next await:
\* Disable goes to remove_extension, Enable looks the name up in the catalog.
ApplyChange(p, rq, h, cs) ==
    LET n == rq.args.extension_name IN
    IF rq.args.action = "disable"
    THEN Goto(p, "remove", h, cs)
    ELSE IF get_extension_by_name(n)
    THEN Goto(p, "install", h, Append(cs, Call("catalog", "lookup", n, TRUE)))
    ELSE Finish(p, rq, ManageError(NotFoundMessage(n)), h,
                Append(cs, Call("catalog", "lookup", n, FALSE)))

\* mutant: a run without a Tool Route Manager is refused
ManageExtensionsHandlerNeedsRouter(p, rq) ==
    LET params == ManageExtensionsParams(rq.args)
        h == {"em"} \cup (IF ToolRouteManagerLive THEN {"trm"} ELSE {})
    IN
    IF rq.args.kind = "none"
    THEN Finish(p, rq, Failure("extmgr", MissingParameter("arguments")), {}, << >>)
    ELSE IF ~params.ok
    THEN Finish(p, rq, Failure("extmgr", DeserializationError(params.error)),
                {}, << >>)
    ELSE IF ~ExtensionManagerLive
    THEN Finish(p, rq, ManageError(ManagerGoneMessage), {},
                <<Upgrade("em", FALSE)>>)
    ELSE IF ToolRouteManagerLive
    THEN Goto(p, "pre_functional", h, <<Upgrade("em", TRUE), Upgrade("trm", TRUE)>>)
    ELSE Finish(p, rq, ManageError(<<"Tool route manager is no longer available">>),
                {}, <<Upgrade("em", TRUE), Upgrade("trm", FALSE)>>)

\* mutant: a run waits until no other call is in progress
ManageExtensionsHandlerExclusive(p, rq) ==
    /\ \A q \in Callers \ {p} : pc[q] = "idle"
    /\ LET params == ManageExtensionsParams(rq.args)
           h == {"em"} \cup (IF ToolRouteManagerLive THEN {"trm"} ELSE {})
       IN
       IF rq.args.kind = "none"
       THEN Finish(p, rq, Failure("extmgr", MissingParameter("arguments")), {}, << >>)
       ELSE IF ~params.ok
       THEN Finish(p, rq, Failure("extmgr", DeserializationError(params.error)),
                   {}, << >>)
       ELSE IF ~ExtensionManagerLive
       THEN Finish(p, rq, ManageError(ManagerGoneMessage), {},
                   <<Upgrade("em", FALSE)>>)
       ELSE IF ToolRouteManagerLive
       THEN Goto(p, "pre_functional", h, <<Upgrade("em", TRUE), Upgrade("trm", TRUE)>>)
       ELSE ApplyChange(p, rq, h, <<Upgrade("em", TRUE), Upgrade("trm", FALSE)>>)

\* mutant: the Extension Manager is resolved before the arguments are read
ManageExtensionsHandlerResolvesFirst(p, rq) ==
    LET params == ManageExtensionsParams(rq.args)
        h == {"em"} \cup (IF ToolRouteManagerLive THEN {"trm"} ELSE {})
    IN
    IF ~ExtensionManagerLive
    THEN Finish(p, rq, ManageError(ManagerGoneMessage), {},
                <<Upgrade("em", FALSE)>>)
    ELSE IF rq.args.kind = "none"
    THEN Finish(p, rq, Failure("extmgr", MissingParameter("arguments")), {},
                <<Upgrade("em", TRUE)>>)
    ELSE IF ~params.ok
    THEN Finish(p, rq, Failure("extmgr", DeserializationError(params.error)),
                {}, <<Upgrade("em", TRUE)>>)
    ELSE IF ToolRouteManagerLive
    THEN Goto(p, "pre_functional", h, <<Upgrade("em", TRUE), Upgrade("trm", TRUE)>>)
    ELSE ApplyChange(p, rq, h, <<Upgrade("em", TRUE), Upgrade("trm", FALSE)>>)

\* handle_manage_extensions and manage_extensions_impl up to the first await
ManageExtensionsHandler(p, rq) ==
    LET params == ManageExtensionsParams(rq.args)
        h == {"em"} \cup (IF ToolRouteManagerLive THEN {"trm"} ELSE {})
    IN
    IF rq.args.kind = "none"
    THEN Finish(p, rq, Failure("extmgr", MissingParameter("arguments")), {}, << >>)
    ELSE IF ~params.ok
    THEN Finish(p, rq, Failure("extmgr", DeserializationError(params.error)),
                {}, << >>)
    ELSE IF ~ExtensionManagerLive
    THEN Finish(p, rq, ManageError(ManagerGoneMessage), {},
                <<Upgrade("em", FALSE)>>)
    ELSE IF ToolRouteManagerLive
    THEN Goto(p, "pre_functional", h, <<Upgrade("em", TRUE), Upgrade("trm", TRUE)>>)
    ELSE ApplyChange(p, rq, h, <<Upgrade("em", TRUE), Upgrade("trm", FALSE)>>)

\* handle_search_available_extensions up to the await of the manager
SearchAvailableHandler(p, rq) ==
    IF ExtensionManagerLive
    THEN Goto(p, "search_available_extensions", {"em"}, <<Upgrade("em", TRUE)>>)
    ELSE Finish(p, rq, Failure("extmgr", ManagerUnavailable), {},
                <<Upgrade("em", FALSE)>>)

ExtensionManagerCallTool(p) ==
    \E name \in ToolNameInputs : \E args \in ArgsFor(name) :
        LET rq == Request("extmgr", "call_tool", name, args)
            handler == ExtensionManagerDispatch(name)
        IN
        /\ Begin(p, rq)
        /\ CASE handler = "search_available_extensions" ->
                    SearchAvailableHandler(p, rq)
             [] handler = "manage_extensions" -> ManageExtensionsHandler(p, rq)
             [] OTHER ->
                    Finish(p, rq, Failure("extmgr", UnknownTool(name)), {}, << >>)
        /\ Frame
        /\ UNCHANGED dataVars

\* extension_manager.search_available_extensions().await and the match on it
SearchAvailableReturn(p) ==
    /\ Resume(p, "search_available_extensions")
    /\ \E ok \in BOOLEAN :
         Finish(p, req[p],
                IF ok THEN Success(<<"extensions">>)
                ELSE Failure("extmgr", OperationFailed(
                         <<"Failed to search available extensions: ">>
                             \o BackendError)),
                held[p],
                Append(calls[p], Call("em", "search_available_extensions", "", ok)))
    /\ Frame
    /\ UNCHANGED dataVars

\* pre-sync: is_router_functional().await
PreFunctional(p) ==
    /\ Resume(p, "pre_functional")
    /\ LET cs == Append(calls[p], IsRouterFunctional(routerFunctional)) IN
       IF routerFunctional
       THEN Goto(p, "pre_selector", held[p], cs)
       ELSE ApplyChange(p, req[p], held[p], cs)
    /\ Frame
    /\ UNCHANGED dataVars

\* pre-sync: get_router_tool_selector().await
PreSelector(p) ==
    /\ Resume(p, "pre_selector")
    /\ LET cs == Append(calls[p], GetRouterToolSelector(routerSelector)) IN
       IF routerSelector
       THEN Goto(p, "pre_update", held[p], cs)
       ELSE ApplyChange(p, req[p], held[p], cs)
    /\ Frame
    /\ UNCHANGED dataVars

\* mutant: a failure of the pre-sync update is dropped and the run goes on
PreUpdateIgnoresFailure(p) ==
    /\ Resume(p, "pre_update")
    /\ LET n == req[p].args.extension_name
           a == SelectorAction(req[p].args.action)
           u == update_extension_tools(n, a)
           cs == Append(calls[p], Call("index", a, n, u.ok))
       IN IF u.ok
          THEN /\ index' = u.index
               /\ ApplyChange(p, req[p], held[p], cs)
          ELSE /\ UNCHANGED index
               /\ ApplyChange(p, req[p], held[p], cs)
    /\ Frame
    /\ UNCHANGED registry

\* mutant: a failed pre-sync update is tried again
PreUpdateRetries(p) ==
    /\ Resume(p, "pre_update")
    /\ LET n == req[p].args.extension_name
           a == SelectorAction(req[p].args.action)
           u == update_extension_tools(n, a)
           cs == Append(calls[p], Call("index", a, n, u.ok))
       IN IF u.ok
          THEN /\ index' = u.index
               /\ ApplyChange(p, req[p], held[p], cs)
          ELSE /\ UNCHANGED index
               /\ Goto(p, "pre_update", held[p], cs)
    /\ Frame
    /\ UNCHANGED registry

\* pre-sync: update_extension_tools(..).await
PreUpdate(p) ==
    /\ Resume(p, "pre_update")
    /\ LET n == req[p].args.extension_name
           a == SelectorAction(req[p].args.action)
           u == update_extension_tools(n, a)
           cs == Append(calls[p], Call("index", a, n, u.ok))
       IN IF u.ok
          THEN /\ index' = u.index
               /\ ApplyChange(p, req[p], held[p], cs)
          ELSE /\ UNCHANGED index
               /\ Finish(p, req[p], ManageError(IndexFailureMessage(u.error)),
                         held[p], cs)
    /\ Frame
    /\ UNCHANGED registry

\* mutant: a refusal of the registry is reported with a text of the adapter
RemoveHidesError(p) ==
    /\ Resume(p, "remove")
    /\ LET n == req[p].args.extension_name
           r == remove_extension(n)
           cs == Append(calls[p], Call("registry", "remove", n, r.ok))
       IN IF r.ok
          THEN /\ registry' = r.registry
               /\ Finish(p, req[p], Success(DisabledMessage(n)), held[p], cs)
          ELSE /\ UNCHANGED registry
               /\ Finish(p, req[p], ManageError(<<"removal failed">>), held[p], cs)
    /\ Frame
    /\ UNCHANGED index

\* mutant: the removal is reported as done whatever the registry answered
RemoveReportsSuccess(p) ==
    /\ Resume(p, "remove")
    /\ LET n == req[p].args.extension_name
           r == remove_extension(n)
           cs == Append(calls[p], Call("registry", "remove", n, r.ok))
       IN /\ registry' = IF r.ok THEN r.registry ELSE registry
          /\ Finish(p, req[p], Success(DisabledMessage(n)), held[p], cs)
    /\ Frame
    /\ UNCHANGED index

\* Disable: remove_extension(name).await and the mapping of its result
Remove(p) ==
    /\ Resume(p, "remove")
    /\ LET n == req[p].args.extension_name
           r == remove_extension(n)
           cs == Append(calls[p], Call("registry", "remove", n, r.ok))
       IN IF r.ok
          THEN /\ registry' = r.registry
               /\ Finish(p, req[p], Success(DisabledMessage(n)), held[p], cs)
          ELSE /\ UNCHANGED registry
               /\ Finish(p, req[p], ManageError(r.error), held[p], cs)
    /\ Frame
    /\ UNCHANGED index

\* mutant: the result of the install is returned without the post-sync
InstallWithoutPostSync(p) ==
    /\ Resume(p, "install")
    /\ LET n == req[p].args.extension_name
           r == add_extension(n)
           cs == Append(calls[p], Call("registry", "install", n, r.ok))
       IN IF r.ok
          THEN /\ registry' = r.registry
               /\ Finish(p, req[p], Success(InstalledMessage(n)), held[p], cs)
          ELSE /\ UNCHANGED registry
               /\ Finish(p, req[p], ManageError(r.error), held[p], cs)
    /\ Frame
    /\ UNCHANGED index

\* mutant: the post-sync runs whether or not the install succeeded
InstallPostSyncAlways(p) ==
    /\ Resume(p, "install")
    /\ LET n == req[p].args.extension_name
           r == add_extension(n)
           cs == Append(calls[p], Call("registry", "install", n, r.ok))
       IN /\ registry' = IF r.ok THEN r.registry ELSE registry
          /\ IF "trm" \in held[p]
             THEN Goto(p, "post_functional", held[p], cs)
             ELSE Finish(p, req[p],
                         IF r.ok THEN Success(InstalledMessage(n))
                         ELSE ManageError(r.error), held[p], cs)
    /\ Frame
    /\ UNCHANGED index

\* Enable: add_extension(config).await; on success the post-sync follows
Install(p) ==
    /\ Resume(p, "install")
    /\ LET n == req[p].args.extension_name
           r == add_extension(n)
           cs == Append(calls[p], Call("registry", "install", n, r.ok))
       IN IF r.ok
          THEN /\ registry' = r.registry
               /\ IF "trm" \in held[p]
                  THEN Goto(p, "post_functional", held[p], cs)
                  ELSE Finish(p, req[p], Success(InstalledMessage(n)), held[p], cs)
          ELSE /\ UNCHANGED registry
               /\ Finish(p, req[p], ManageError(r.error), held[p], cs)
    /\ Frame
    /\ UNCHANGED index

\* mutant: the post-sync goes by the answer the pre-sync got
PostFunctionalReusesAnswer(p) ==
    /\ Resume(p, "post_functional")
    /\ LET before == \E i \in 1..Len(calls[p]) :
                         calls[p][i] = IsRouterFunctional(TRUE)
           cs == Append(calls[p], IsRouterFunctional(before))
       IN
       IF before
       THEN Goto(p, "post_selector", held[p], cs)
       ELSE Finish(p, req[p], Success(InstalledMessage(req[p].args.extension_name)),
                   held[p], cs)
    /\ Frame
    /\ UNCHANGED dataVars

\* post-sync: is_router_functional().await
PostFunctional(p) ==
    /\ Resume(p, "post_functional")
    /\ LET cs == Append(calls[p], IsRouterFunctional(routerFunctional)) IN
       IF routerFunctional
       THEN Goto(p, "post_selector", held[p], cs)
       ELSE Finish(p, req[p], Success(InstalledMessage(req[p].args.extension_name)),
                   held[p], cs)
    /\ Frame
    /\ UNCHANGED dataVars

\* post-sync: get_router_tool_selector().await
PostSelector(p) ==
    /\ Resume(p, "post_selector")
    /\ LET cs == Append(calls[p], GetRouterToolSelector(routerSelector)) IN
       IF routerSelector
       THEN Goto(p, "post_update", held[p], cs)
       ELSE Finish(p, req[p], Success(InstalledMessage(req[p].args.extension_name)),
                   held[p], cs)
    /\ Frame
    /\ UNCHANGED dataVars

\* mutant: a failure of the post-sync update is dropped, the install reported
PostUpdateIgnoresFailure(p) ==
    /\ Resume(p, "post_update")
    /\ LET n == req[p].args.extension_name
           a == SelectorAction(req[p].args.action)
           u == update_extension_tools(n, a)
           cs == Append(calls[p], Call("index", a, n, u.ok))
       IN /\ index' = IF u.ok THEN u.index ELSE index
          /\ Finish(p, req[p], Success(InstalledMessage(n)), held[p], cs)
    /\ Frame
    /\ UNCHANGED registry

\* post-sync: update_extension_tools(..).await
PostUpdate(p) ==
    /\ Resume(p, "post_update")
    /\ LET n == req[p].args.extension_name
           a == SelectorAction(req[p].args.action)
           u == update_extension_tools(n, a)
           cs == Append(calls[p], Call("index", a, n, u.ok))
       IN IF u.ok
          THEN /\ index' = u.index
               /\ Finish(p, req[p], Success(InstalledMessage(n)), held[p], cs)
          ELSE /\ UNCHANGED index
               /\ Finish(p, req[p], ManageError(IndexFailureMessage(u.error)),
                         held[p], cs)
    /\ Frame
    /\ UNCHANGED registry

----------------------------------------------------------------------------

Environment ==
    \/ DropExtensionManager
    \/ DropToolRouteManager
    \/ RouterChange
    \/ FaultChange

Next ==
    \/ Environment
    \/ \E p \in Callers :
         \/ Consume(p)
         \/ Unsupported(p)
         \/ CoreListTools(p)
         \/ CoreSupportsResources(p)
         \/ CoreCallTool(p)
         \/ ListResourcesReturn(p)
         \/ ReadResourceReturn(p)
         \/ SearchSubmitReturn(p)
         \/ SearchResolveReturn(p)
         \/ ExtensionManagerListTools(p)
         \/ ExtensionManagerCallTool(p)
         \/ SearchAvailableReturn(p)
         \/ PreFunctional(p)
         \/ PreSelector(p)
         \/ PreUpdate(p)
         \/ Remove(p)
         \/ Install(p)
         \/ PostFunctional(p)
         \/ PostSelector(p)
         \/ PostUpdate(p)

Spec == Init /\ [][Next]_vars

\* Two callers use the Extension Manager adapter at the same time; both
\* backing components are live, the router is functional and nothing fails.
ConcurrentCallers == {1, 2}

InitConcurrent ==
    /\ emRef = "owned"
    /\ trmRef = "owned"
    /\ routerFunctional = TRUE
    /\ routerSelector = TRUE
    /\ faults = {}
    /\ strict \in BOOLEAN
    /\ registry = {}
    /\ index = {}
    /\ active = ConcurrentCallers
    /\ pc = [p \in Callers |-> "idle"]
    /\ req = [p \in Callers |-> NoReq]
    /\ resp = [p \in Callers |-> NoResp]
    /\ held = [p \in Callers |-> {}]
    /\ calls = [p \in Callers |-> << >>]
    /\ base = [p \in Callers |-> NoPrev]
    /\ changes = 0

NextConcurrent ==
    \E p \in Callers :
        \/ Consume(p)
        \/ ExtensionManagerCallTool(p)
        \/ SearchAvailableReturn(p)
        \/ PreFunctional(p)
        \/ PreSelector(p)
        \/ PreUpdate(p)
        \/ Remove(p)
        \/ Install(p)
        \/ PostFunctional(p)
        \/ PostSelector(p)
        \/ PostUpdate(p)

SpecConcurrent == InitConcurrent /\ [][NextConcurrent]_vars

\* One caller uses the Extension Manager adapter while the environment
\* changes; every call of a backing component returns, that is, a run that
\* is suspended at an await is resumed.
ManageStep(p) ==
    \/ PreFunctional(p)
    \/ PreSelector(p)
    \/ PreUpdate(p)
    \/ Remove(p)
    \/ Install(p)
    \/ PostFunctional(p)
    \/ PostSelector(p)
    \/ PostUpdate(p)

NextReturning ==
    \/ Environment
    \/ \E p \in Callers :
         \/ Consume(p)
         \/ ExtensionManagerCallTool(p)
         \/ SearchAvailableReturn(p)
         \/ ManageStep(p)

EveryCallReturns == \A p \in Callers : WF_vars(ManageStep(p))

SpecReturning == Init /\ [][NextReturning]_vars /\ EveryCallReturns

----------------------------------------------------------------------------
(* Vocabulary of the properties *)

Completed(p) == pc[p] = "idle" /\ resp[p] # NoResp
Contains(s, t) == \E i \in 1..Len(s) : s[i] = t
IsCallTool(p, adapter, name) ==
    req[p].op = "call_tool" /\ req[p].adapter = adapter /\ req[p].name = name
UnknownToolCall(p) ==
    req[p].op = "call_tool" /\ req[p].name \notin RecognizedNames(req[p].adapter)

----------------------------------------------------------------------------
(* C1 *)

\* C1: on both adapters a call_tool with a name the adapter does not recognize
\* returns at once a Call Result (transport ok) with is_error = TRUE whose
\* content is the UnknownTool message naming the tool, whatever the state of
\* the backing components, and no backing component is resolved or called.
UnknownToolIsErrorResult ==
    \A p \in Callers :
        UnknownToolCall(p) =>
            /\ Completed(p)
            /\ resp[p].transport = "ok"
            /\ resp[p].is_error = TRUE
            /\ resp[p].content = <<"Unknown tool: ", req[p].name>>
            /\ Contains(resp[p].content, req[p].name)
            /\ calls[p] = << >>
            /\ held[p] = {}

\* C1 witness: the Core adapter was asked for a tool of the other adapter
\* while both backing components are alive, and answered with the error.
UnknownToolWitness ==
    \E p \in Callers :
        /\ IsCallTool(p, "core", MANAGE_EXTENSIONS_TOOL_NAME)
        /\ Completed(p)
        /\ resp[p].is_error
        /\ emRef = "owned" /\ trmRef = "owned"

----------------------------------------------------------------------------
(* C2 *)

RecognizedCall(p) ==
    req[p].op = "call_tool" /\ req[p].name \in RecognizedNames(req[p].adapter)

\* the component a handler cannot do without
RequiredComponent(name) ==
    IF name = SEARCH_TOOLS_TOOL_NAME THEN "trm" ELSE "em"

ArgumentsInvalid(p) ==
    /\ req[p].name = MANAGE_EXTENSIONS_TOOL_NAME
    /\ req[p].args.kind = "none" \/ ~ManageExtensionsParams(req[p].args).ok

BackingAbsent(p) ==
    \E i \in 1..Len(calls[p]) :
        /\ calls[p][i] = Upgrade(RequiredComponent(req[p].name), FALSE)

BackingCallFailed(p) ==
    \E i \in 1..Len(calls[p]) :
        /\ calls[p][i].target \in {"em", "trm", "registry", "index", "catalog"}
        /\ calls[p][i].op # "upgrade"
        /\ ~calls[p][i].ok

HandlerFailed(p) ==
    ArgumentsInvalid(p) \/ BackingAbsent(p) \/ BackingCallFailed(p)

\* every error a handler of the adapter can raise
ErrorValues(adapter) ==
    IF adapter = "core"
    THEN {ManagerUnavailable, ToolRouteManagerUnavailable,
          OperationFailed(<<"Failed to list resources: ">> \o BackendError),
          OperationFailed(<<"Failed to read resource: ">> \o BackendError),
          OperationFailed(SubmitError), OperationFailed(ResolveError)}
    ELSE {ManagerUnavailable, MissingParameter("arguments"),
          OperationFailed(<<"Failed to search available extensions: ">>
                              \o BackendError),
          OperationFailed(ManagerGoneMessage),
          OperationFailed(IndexFailureMessage(IndexError)),
          OperationFailed(RegistryError)}
         \cup {DeserializationError(ManageExtensionsParams(a).error) :
                   a \in {x \in ArgInputs : ~ManageExtensionsParams(x).ok}}
         \cup {OperationFailed(NotFoundMessage(n)) : n \in ExtNames}
         \cup {OperationFailed(NotEnabledError(n)) : n \in ExtNames}
         \cup {OperationFailed(AlreadyEnabledError(n)) : n \in ExtNames}

RenderedErrors(adapter) == {Display(adapter, e) : e \in ErrorValues(adapter)}

\* C2: a call_tool with a recognized name always returns a Call Result
\* (transport ok): when the handler failed (backing component absent, a
\* backing call failed, the arguments were invalid, an index update failed)
\* it has is_error = TRUE and its content is exactly the rendering of an
\* error of the adapter; when the handler succeeded is_error is not TRUE.
RecognizedCallIsResult ==
    \A p \in Callers :
        (RecognizedCall(p) /\ Completed(p)) =>
            /\ resp[p].transport = "ok"
            /\ HandlerFailed(p) =>
                   /\ resp[p].is_error = TRUE
                   /\ resp[p].content \in RenderedErrors(req[p].adapter)
            /\ ~HandlerFailed(p) =>
                   /\ resp[p].is_error = FALSE
                   /\ resp[p].content \notin RenderedErrors(req[p].adapter)

\* C2 witness: a manage_extensions call whose index update failed came back
\* as an error-flagged result.
RecognizedCallWitness ==
    \E p \in Callers :
        /\ IsCallTool(p, "extmgr", MANAGE_EXTENSIONS_TOOL_NAME)
        /\ Completed(p)
        /\ \E i \in 1..Len(calls[p]) :
               calls[p][i].target = "index" /\ ~calls[p][i].ok
        /\ resp[p].transport = "ok"
        /\ resp[p].is_error

----------------------------------------------------------------------------
(* C3 *)

ManageRun(p, action, n) ==
    /\ IsCallTool(p, "extmgr", MANAGE_EXTENSIONS_TOOL_NAME)
    /\ req[p].args = ManageArgs(action, n)

\* the positions of the log of p that satisfy Test
Positions(p, Test(_)) == {i \in 1..Len(calls[p]) : Test(calls[p][i])}

IsIndexUpdate(c) == c.target = "index"
IsIndexAdd(c) == c.target = "index" /\ c.op = "add"
IsIndexRemove(c) == c.target = "index" /\ c.op = "remove"
IsInstall(c) == c.target = "registry" /\ c.op = "install"
IsRemoval(c) == c.target = "registry" /\ c.op = "remove"
IsLookup(c) == c.target = "catalog"

\* every component was alive, every router check answered yes, every
\* backing call succeeded
AllAnswersPositive(p) ==
    /\ calls[p] # << >>
    /\ \A i \in 1..Len(calls[p]) : calls[p][i].ok

\* C3: an Enable run for a name of the catalog, with the Extension Manager
\* and the Tool Route Manager alive, the router functional at every check and
\* every backing call succeeding, makes exactly two index "add" updates for
\* that name, one before and one after exactly one registry install, and
\* returns the one message "The extension '<name>' has been installed
\* successfully".
EnableSyncsTwice ==
    \A p \in Callers : \A n \in Catalog :
        (ManageRun(p, "enable", n) /\ Completed(p) /\ AllAnswersPositive(p)) =>
            /\ Cardinality(Positions(p, IsIndexUpdate)) = 2
            /\ Cardinality(Positions(p, IsInstall)) = 1
            /\ \A i \in Positions(p, IsIndexUpdate) :
                   calls[p][i] = Call("index", "add", n, TRUE)
            /\ \A j \in Positions(p, IsInstall) :
                   /\ calls[p][j] = Call("registry", "install", n, TRUE)
                   /\ \E i \in Positions(p, IsIndexUpdate) : i < j
                   /\ \E i \in Positions(p, IsIndexUpdate) : i > j
            /\ Positions(p, IsRemoval) = {}
            /\ resp[p] = Success(InstalledMessage(n))

\* C3 witness: the scenario of the spec, for "developer"
EnableSyncsTwiceWitness ==
    \E p \in Callers :
        /\ ManageRun(p, "enable", "developer")
        /\ Completed(p)
        /\ AllAnswersPositive(p)
        /\ Cardinality(Positions(p, IsIndexAdd)) = 2
        /\ resp[p].content =
               <<"The extension '", "developer", "' has been installed successfully">>
        /\ ~resp[p].is_error

----------------------------------------------------------------------------
(* C4 *)

InLog(p, c) == \E i \in 1..Len(calls[p]) : calls[p][i] = c

\* the run resolved the Extension Manager and no index update of it failed
ReachedApplyChange(p) ==
    /\ InLog(p, Upgrade("em", TRUE))
    /\ \A i \in Positions(p, IsIndexUpdate) : calls[p][i].ok

\* the pre-sync found a functional router with a selector
RouterFunctionalAtPreSync(p) ==
    /\ InLog(p, IsRouterFunctional(TRUE))
    /\ InLog(p, GetRouterToolSelector(TRUE))

\* C4: an Enable run for a name absent from the catalog (the Extension
\* Manager resolved, the pre-sync not failed) returns the not-found error and
\* never calls the registry install; if the pre-sync found a functional
\* router, an index "add" for the name precedes the lookup, no index "remove"
\* follows, and the index is left holding an extension that is not installed.
EnableUnknownLeavesIndex ==
    \A p \in Callers : \A n \in ExtNames \ Catalog :
        (ManageRun(p, "enable", n) /\ Completed(p) /\ ReachedApplyChange(p)) =>
            /\ resp[p].is_error = TRUE
            /\ resp[p].content =
                   <<"Extension operation failed: ">> \o NotFoundMessage(n)
            /\ Positions(p, IsInstall) = {}
            /\ Positions(p, IsRemoval) = {}
            /\ calls[p][Len(calls[p])] = Call("catalog", "lookup", n, FALSE)
            /\ RouterFunctionalAtPreSync(p) =>
                   /\ calls[p][Len(calls[p]) - 1] = Call("index", "add", n, TRUE)
                   /\ Positions(p, IsIndexRemove) = {}
                   /\ Cardinality(Positions(p, IsIndexUpdate)) = 1
                   /\ n \in index
                   /\ n \notin registry

\* C4 witness: "ghost" is not in the catalog; the run failed with not-found
\* and the index holds it although it was never installed.
EnableUnknownWitness ==
    \E p \in Callers :
        /\ ManageRun(p, "enable", "ghost")
        /\ Completed(p)
        /\ RouterFunctionalAtPreSync(p)
        /\ resp[p].is_error
        /\ "ghost" \in index
        /\ "ghost" \notin registry

----------------------------------------------------------------------------
(* C5 *)

\* a Disable run of p for n, started while n was not in the registry
DisableOfAbsent(p, n) ==
    /\ ManageRun(p, "disable", n)
    /\ ~req[p].enabledAtStart

\* such a run that got past the pre-sync has called the registry removal
\* exactly once, and after every index update
DisableOfAbsentAttemptsRemoval ==
    \A p \in Callers : \A n \in ExtNames :
        (DisableOfAbsent(p, n) /\ Completed(p) /\ ReachedApplyChange(p)) =>
            /\ Cardinality(Positions(p, IsRemoval)) = 1
            /\ \A i \in Positions(p, IsIndexUpdate) :
                   \A j \in Positions(p, IsRemoval) : i < j
            /\ RouterFunctionalAtPreSync(p) =>
                   \E i \in Positions(p, IsIndexUpdate) :
                       calls[p][i] = Call("index", "remove", n, TRUE)

\* the step that calls the registry removal: the index "remove" is already
\* in the log, and a failure of the registry is returned with its message
RemovalStep ==
    \A p \in Callers : \A n \in ExtNames :
        (DisableOfAbsent(p, n) /\ pc[p] = "remove" /\ pc'[p] = "idle") =>
            /\ RouterFunctionalAtPreSync(p) =>
                   calls[p][Len(calls[p])] = Call("index", "remove", n, TRUE)
            /\ Positions(p, IsRemoval) = {}
            /\ calls'[p] = Append(calls[p],
                   Call("registry", "remove", n, remove_extension(n).ok))
            /\ ~remove_extension(n).ok =>
                   /\ resp'[p].is_error = TRUE
                   /\ resp'[p].content = <<"Extension operation failed: ">>
                          \o remove_extension(n).error

\* C5: a Disable run for an extension that is not in the registry sends the
\* index "remove" (when the router is functional) before it calls the registry
\* removal, still calls the removal, and when the removal fails the result
\* carries the registry's own failure message, unaltered, after the
\* "Extension operation failed: " prefix.
DisableAbsentRemovesIndexFirst ==
    []DisableOfAbsentAttemptsRemoval /\ [][RemovalStep]_vars

\* C5 witness: a finished Disable of a name that was not enabled, index
\* "remove" then registry removal, which refused with its own message.
DisableAbsentWitness ==
    \E p \in Callers : \E n \in ExtNames :
        /\ DisableOfAbsent(p, n)
        /\ Completed(p)
        /\ RouterFunctionalAtPreSync(p)
        /\ Len(calls[p]) >= 2
        /\ calls[p][Len(calls[p]) - 1] = Call("index", "remove", n, TRUE)
        /\ calls[p][Len(calls[p])] = Call("registry", "remove", n, FALSE)
        /\ resp[p].is_error
        /\ resp[p].content =
               <<"Extension operation failed: ">> \o NotEnabledError(n)

----------------------------------------------------------------------------
(* C6 *)

\* the Tool Route Manager has been live, and its router functional, since
\* construction, and no manage_extensions run is in progress
RouterFunctionalThroughout ==
    /\ changes = 0
    /\ trmRef = "owned"
    /\ routerFunctional
    /\ routerSelector

NoRunInProgress == \A p \in Callers : pc[p] = "idle"

\* C6: with a live Tool Route Manager whose router is functional, after any
\* sequence of completed, non-overlapping manage_extensions runs the index
\* holds tools for exactly the extensions of the registry.
IndexMatchesRegistry ==
    (RouterFunctionalThroughout /\ NoRunInProgress) => index = registry

----------------------------------------------------------------------------
(* C7, C8 *)

Count(s, t) == Cardinality({i \in 1..Len(s) : s[i] = t})

IsCoreListTools(p) == req[p].adapter = "core" /\ req[p].op = "list_tools"

\* the step in which p's list_tools on the Core adapter returns
CoreListToolsReturns(p) ==
    /\ IsCoreListTools(p)'
    /\ Completed(p)'
    /\ calls'[p] # calls[p]

\* C7: the list_tools result of the Core adapter holds exactly one
\* search_tools descriptor when a live Tool Route Manager is reachable at the
\* time of the call and none when it is absent or gone, whatever the state of
\* the router and of the Extension Manager.
SearchToolListedIffRouteManagerLive ==
    [][\A p \in Callers :
          CoreListToolsReturns(p) =>
              /\ resp'[p].transport = "ok"
              /\ Count(resp'[p].tools, SEARCH_TOOLS_TOOL_NAME) =
                     IF ToolRouteManagerLive THEN 1 ELSE 0]_vars

\* C7 witness: search_tools is listed once although the router is not
\* functional and there is no Extension Manager.
SearchToolListedWitness ==
    \E p \in Callers :
        /\ IsCoreListTools(p)
        /\ Completed(p)
        /\ InLog(p, Upgrade("trm", TRUE))
        /\ InLog(p, Upgrade("em", FALSE))
        /\ ~routerFunctional
        /\ Count(resp[p].tools, SEARCH_TOOLS_TOOL_NAME) = 1

\* C8: the list_tools result of the Core adapter holds list_resources and
\* read_resource, once each, when the live Extension Manager answers that an
\* enabled extension supports resources, and neither of them when it answers
\* that none does or when no Extension Manager is reachable.
ResourceToolsListedIffSupported ==
    [][\A p \in Callers :
          CoreListToolsReturns(p) =>
              LET n == IF ExtensionManagerLive /\ supports_resources
                       THEN 1 ELSE 0
              IN /\ Count(resp'[p].tools, LIST_RESOURCES_TOOL_NAME) = n
                 /\ Count(resp'[p].tools, READ_RESOURCE_TOOL_NAME) = n]_vars

\* C8 witness: an extension that supports resources is enabled and both
\* resource tools are listed.
ResourceToolsListedWitness ==
    \E p \in Callers :
        /\ IsCoreListTools(p)
        /\ Completed(p)
        /\ InLog(p, Call("em", "supports_resources", "", TRUE))
        /\ Count(resp[p].tools, LIST_RESOURCES_TOOL_NAME) = 1
        /\ Count(resp[p].tools, READ_RESOURCE_TOOL_NAME) = 1

----------------------------------------------------------------------------
(* C9 *)

\* the step in which p calls the tool name on the Core adapter
BeginsCoreCall(p, name) ==
    /\ pc[p] = "idle"
    /\ IsCallTool(p, "core", name)'
    /\ \/ pc'[p] # "idle"
       \/ req'[p] # req[p]
       \/ base'[p] # base[p] /\ base'[p] # NoPrev

ErrorResult(text) ==
    [transport |-> "ok", is_error |-> TRUE, content |-> text, tools |-> << >>]

\* the call is handed to the component, or answered with the error at once
ForwardedOrUnavailable(p, live, at, handle, text) ==
    IF live
    THEN pc'[p] = at /\ handle \in held'[p]
    ELSE Completed(p)' /\ resp'[p] = ErrorResult(text)

ResolvedAtCallTime ==
    \A p \in Callers :
        /\ BeginsCoreCall(p, LIST_RESOURCES_TOOL_NAME) =>
               ForwardedOrUnavailable(p, ExtensionManagerLive, "list_resources",
                   "em", <<"Extension manager not available">>)
        /\ BeginsCoreCall(p, READ_RESOURCE_TOOL_NAME) =>
               ForwardedOrUnavailable(p, ExtensionManagerLive, "read_resource",
                   "em", <<"Extension manager not available">>)
        /\ BeginsCoreCall(p, SEARCH_TOOLS_TOOL_NAME) =>
               ForwardedOrUnavailable(p, ToolRouteManagerLive, "search_submit",
                   "trm", <<"Tool route manager not available">>)

\* a call that found its component live has called it
ForwardedCallReachesComponent ==
    \A p \in Callers :
        Completed(p) =>
            /\ (IsCallTool(p, "core", LIST_RESOURCES_TOOL_NAME)
                     /\ InLog(p, Upgrade("em", TRUE))) =>
                   \E ok \in BOOLEAN :
                       InLog(p, CallWithToken("em", "list_resources",
                                              DefaultToken, ok))
            /\ (IsCallTool(p, "core", READ_RESOURCE_TOOL_NAME)
                     /\ InLog(p, Upgrade("em", TRUE))) =>
                   \E ok \in BOOLEAN :
                       InLog(p, CallWithToken("em", "read_resource",
                                              DefaultToken, ok))
            /\ (IsCallTool(p, "core", SEARCH_TOOLS_TOOL_NAME)
                     /\ InLog(p, Upgrade("trm", TRUE))) =>
                   \E ok \in BOOLEAN : InLog(p, Call("trm", "submit", "", ok))

\* C9: call_tool on the Core adapter resolves the backing component when it is
\* called: search_tools without a reachable Tool Route Manager, and
\* list_resources / read_resource without a reachable Extension Manager,
\* return the error result with the component's "not available" message; with
\* a live component the call is forwarded to it. A component that served the
\* previous call and is gone now gives the error on this one.
CoreCallResolvesFresh ==
    []ForwardedCallReachesComponent /\ [][ResolvedAtCallTime]_vars

\* C9 witness: the same list_resources call was served before, while the
\* Extension Manager was still held, and is refused now that it is gone.
CoreCallResolvesFreshWitness ==
    \E p \in Callers :
        /\ IsCallTool(p, "core", LIST_RESOURCES_TOOL_NAME)
        /\ Completed(p)
        /\ base[p] # NoPrev
        /\ ~base[p].resp.is_error
        /\ emRef = "dropped"
        /\ resp[p] = ErrorResult(<<"Extension manager not available">>)

----------------------------------------------------------------------------
(* C10 *)

\* p has completed a Disable of n directly after a completed Disable of n
\* that started while n was not in the registry, and the backing components
\* have not changed since that first run started
SecondDisableOfAbsent(p, n) ==
    /\ ManageRun(p, "disable", n)
    /\ Completed(p)
    /\ base[p] # NoPrev
    /\ ~base[p].req.enabledAtStart
    /\ base[p].req.changesAtStart = changes

\* C10: of two Disable runs in sequence for the same name that is not in the
\* registry, with nothing in between and the backing components unchanged,
\* both return a result and the second result is the first one: both
\* succeed, or both fail with the same message.
DisableTwiceSameOutcome ==
    \A p \in Callers : \A n \in ExtNames :
        SecondDisableOfAbsent(p, n) =>
            /\ resp[p].transport = "ok"
            /\ base[p].resp.transport = "ok"
            /\ resp[p] = base[p].resp

\* C10 witness: the registry refuses to remove what is not enabled, and
\* refused both runs with the same message.
DisableTwiceWitness ==
    \E p \in Callers : \E n \in ExtNames :
        /\ SecondDisableOfAbsent(p, n)
        /\ resp[p].is_error
        /\ base[p].resp.is_error
        /\ InLog(p, Call("registry", "remove", n, FALSE))

----------------------------------------------------------------------------
(* C11 *)

\* a finished manage_extensions run of p that could not resolve the
\* Extension Manager
ManagerGoneRun(p) ==
    /\ IsCallTool(p, "extmgr", MANAGE_EXTENSIONS_TOOL_NAME)
    /\ Completed(p)
    /\ InLog(p, Upgrade("em", FALSE))

\* C11: a manage_extensions run that cannot resolve the Extension Manager
\* ends at once with the ManagerUnavailable error kind, before any index
\* update, catalog lookup or registry call.
ManagerGoneIsManagerUnavailable ==
    \A p \in Callers :
        ManagerGoneRun(p) =>
            /\ resp[p].transport = "ok"
            /\ resp[p].is_error = TRUE
            /\ resp[p].content =
                   ExtensionManagerToolError(ManagerUnavailable)
            /\ calls[p] = <<Upgrade("em", FALSE)>>

----------------------------------------------------------------------------
(* C12 *)

\* the registry has not been called yet in the run of p
NoRegistryCallYet(p) ==
    Positions(p, IsInstall) \cup Positions(p, IsRemoval) = {}

\* a finished manage_extensions run of p whose index pre-sync update failed:
\* the last answer in the log is a refused index update, and the registry
\* had not been called before it
PreSyncFailedRun(p, action, n) ==
    /\ ManageRun(p, action, n)
    /\ Completed(p)
    /\ Len(calls[p]) > 0
    /\ IsIndexUpdate(calls[p][Len(calls[p])])
    /\ ~calls[p][Len(calls[p])].ok
    /\ NoRegistryCallYet(p)

IndexFailureResult ==
    ErrorResult(<<"Extension operation failed: ",
                  "Failed to update LLM index: ">> \o IndexError)

PreSyncFailureResult ==
    \A p \in Callers : \A action \in ManageExtensionAction : \A n \in ExtNames :
        PreSyncFailedRun(p, action, n) =>
            /\ resp[p] = IndexFailureResult
            /\ Positions(p, IsLookup) = {}
            /\ Cardinality(Positions(p, IsIndexUpdate)) = 1

\* the step in which the pre-sync update of p returns
PreSyncStep ==
    \A p \in Callers :
        (pc[p] = "pre_update" /\ pc'[p] # "pre_update") =>
            IF update_extension_tools(req[p].args.extension_name,
                   SelectorAction(req[p].args.action)).ok
            THEN pc'[p] # "idle" \/ Positions(p, IsLookup)' # {}
            ELSE /\ resp'[p] = IndexFailureResult
                 /\ pc'[p] = "idle"
                 /\ registry' = registry
                 /\ index' = index

\* C12: when the index pre-sync update fails, the run ends with the
\* OperationFailed error whose message reports the index update failure, and
\* the registry is unchanged: a Disable never calls the registry removal, an
\* Enable calls neither the catalog lookup nor the registry install.
PreSyncFailureIsFatal ==
    []PreSyncFailureResult /\ [][PreSyncStep]_vars

\* C12 witness: an Enable of a catalogued extension stopped at the pre-sync.
PreSyncFailureWitness ==
    \E p \in Callers :
        /\ PreSyncFailedRun(p, "enable", "developer")
        /\ resp[p].is_error
        /\ "developer" \notin registry

----------------------------------------------------------------------------
(* C13 *)

\* a finished Enable run of p whose install succeeded and whose index
\* post-sync update, the last call of the run, failed
PostSyncFailedRun(p, n) ==
    /\ ManageRun(p, "enable", n)
    /\ Completed(p)
    /\ InLog(p, Call("registry", "install", n, TRUE))
    /\ calls[p][Len(calls[p])] = Call("index", "add", n, FALSE)

\* C13: in an Enable run whose registry install succeeded, a failure of the
\* index post-sync update makes the run return the OperationFailed error
\* (is_error = true, no success message), while the extension stays
\* installed: the run calls no registry removal.
PostSyncFailureKeepsInstall ==
    \A p \in Callers : \A n \in ExtNames :
        PostSyncFailedRun(p, n) =>
            /\ resp[p] = IndexFailureResult
            /\ ~Contains(resp[p].content, InstalledMessage(n)[3])
            /\ Positions(p, IsRemoval) = {}
            /\ Cardinality(Positions(p, IsInstall)) = 1
            /\ \A i \in Positions(p, IsInstall) : i < Len(calls[p])
            /\ n \in registry

\* C13 witness: the index began to fail after the install had succeeded.
PostSyncFailureWitness ==
    \E p \in Callers :
        /\ PostSyncFailedRun(p, "developer")
        /\ resp[p].is_error
        /\ "developer" \in registry
        /\ "index" \in faults

----------------------------------------------------------------------------
(* C14 *)

ProtocolResourceOps == {"list_resources", "read_resource"}

\* p has the answer of a protocol-level list_resources or read_resource
ProtocolResourceCall(p) ==
    /\ req[p].op \in ProtocolResourceOps
    /\ Completed(p)

\* C14 as stated: the protocol-level list_resources and read_resource are
\* forwarded to the Extension Manager when it is live, and fail with the
\* closed-transport indication only when no manager is reachable.
ProtocolResourcesForwardedWhenLive ==
    \A p \in Callers :
        ProtocolResourceCall(p) =>
            (resp[p] = TransportClosed <=> ~ExtensionManagerLive)

\* C14 amended: the protocol-level list_resources and read_resource of both
\* adapters fail with the closed-transport indication whether or not an
\* Extension Manager is reachable, and call no backing component.
ProtocolResourcesAlwaysClosed ==
    \A p \in Callers :
        ProtocolResourceCall(p) =>
            /\ resp[p] = TransportClosed
            /\ calls[p] = << >>

\* C14 witness: the operation was refused although the manager is live.
ProtocolResourcesClosedWitness ==
    \E p \in Callers :
        /\ ProtocolResourceCall(p)
        /\ req[p].op = "read_resource"
        /\ emRef = "owned"
        /\ resp[p] = TransportClosed

----------------------------------------------------------------------------
(* C15 *)

\* p has the answer of a manage_extensions call whose action is neither
\* enable nor disable
UnrecognizedActionCall(p, a, n) ==
    /\ a \notin ManageExtensionAction
    /\ ManageRun(p, a, n)
    /\ Completed(p)

\* C15: a manage_extensions call whose action is outside {enable, disable}
\* is answered with an is_error = true result of the InvalidAction kind, and
\* makes no index update and no registry change.
UnrecognizedActionIsInvalidAction ==
    \A p \in Callers : \A a \in ActionInputs : \A n \in ExtNames :
        UnrecognizedActionCall(p, a, n) =>
            /\ resp[p].transport = "ok"
            /\ resp[p].is_error = TRUE
            /\ resp[p].content = ExtensionManagerToolError(InvalidAction(a))
            /\ calls[p] = << >>

----------------------------------------------------------------------------
(* C16 *)

IsUpgrade(c) == c.op = "upgrade"
IsRegistryCall(c) == c.target = "registry"

\* the log of a manage_extensions run of p, finished or not, is in the order
\* resolve managers, index pre-sync, registry change, index post-sync
RunInOrder(p, action, n) ==
    LET log == calls[p]
        updates == Positions(p, IsIndexUpdate)
        changed == Positions(p, IsRegistryCall)
    IN
    /\ Positions(p, IsUpgrade) \subseteq {1, 2}
    /\ Len(log) >= 1 => log[1].target = "em" /\ IsUpgrade(log[1])
    /\ Len(log) >= 2 => log[2].target = "trm" /\ IsUpgrade(log[2])
    /\ Cardinality(changed) <= 1
    /\ \A i \in updates :
          /\ log[i].op = (IF action = "disable" THEN "remove" ELSE "add")
          /\ log[i].name = n
          /\ i >= 5
          /\ log[i - 2] = IsRouterFunctional(TRUE)
          /\ log[i - 1] = GetRouterToolSelector(TRUE)
    /\ \A j \in changed :
          /\ log[j].name = n
          /\ log[j].op = (IF action = "disable" THEN "remove" ELSE "install")
          /\ Cardinality({i \in updates : i < j}) <= 1
          /\ Cardinality({i \in updates : i > j}) <= 1
          /\ (\E i \in updates : i > j) => action = "enable" /\ log[j].ok
          /\ \A i \in updates : i < j => log[i].ok
    /\ changed = {} => Cardinality(updates) <= 1
    /\ \A k \in Positions(p, IsLookup) :
          /\ action = "enable"
          /\ changed = {} => \A i \in updates : i < k
          /\ \A j \in changed : k = j - 1 /\ log[k].ok
    /\ (action = "enable" /\ changed # {}) => Positions(p, IsLookup) # {}

\* C16: within one manage_extensions run the steps occur in the order resolve
\* managers, index pre-sync, registry change, index post-sync; a Disable run
\* has no index update after the registry removal; and the index action is
\* "remove" exactly when the requested action is Disable and "add" otherwise,
\* in the pre-sync and in the post-sync alike.
RunStepsInOrder ==
    \A p \in Callers : \A action \in ManageExtensionAction : \A n \in ExtNames :
        ManageRun(p, action, n) => RunInOrder(p, action, n)

\* C16 witness: a Disable run that went through every step it has, and whose
\* index update was a "remove".
RunStepsInOrderWitness ==
    \E p \in Callers : \E ok \in BOOLEAN :
        /\ ManageRun(p, "disable", "developer")
        /\ Completed(p)
        /\ req[p].enabledAtStart
        /\ calls[p] = <<Upgrade("em", TRUE), Upgrade("trm", TRUE),
                        IsRouterFunctional(TRUE), GetRouterToolSelector(TRUE),
                        Call("index", "remove", "developer", TRUE),
                        Call("registry", "remove", "developer", ok)>>

----------------------------------------------------------------------------
(* C17 *)

\* q is inside a manage_extensions run
InManageRun(q) ==
    pc[q] \in {"pre_functional", "pre_selector", "pre_update", "remove",
               "install", "post_functional", "post_selector", "post_update"}

\* p can start the run (action, n) now
CanStartRun(p, action, n) ==
    ENABLED (/\ ExtensionManagerCallTool(p)
             /\ req'[p].name = MANAGE_EXTENSIONS_TOOL_NAME
             /\ req'[p].args = ManageArgs(action, n)
             /\ InManageRun(p)')

\* C17: the adapter has no mutual exclusion between manage_extensions runs:
\* while one caller is anywhere inside a run, another caller can start a run
\* for any extension name, the same one included, so that their index and
\* registry updates interleave. (The witness is the interleaving in which an
\* Enable and a Disable of one name both succeed and leave the index holding
\* an extension the registry has removed.)
RunsNotMutuallyExclusive ==
    \A p \in ConcurrentCallers : \A q \in ConcurrentCallers \ {p} :
        (InManageRun(q) /\ pc[p] = "idle" /\ resp[p] = NoResp) =>
            \A action \in ManageExtensionAction : \A n \in ExtNames :
                CanStartRun(p, action, n)

\* C17 witness: an Enable and a Disable of the same name overlapped, both
\* returned success, and the index holds the name while the registry does not.
ConcurrentRunsDisagreeWitness ==
    \E p \in ConcurrentCallers : \E q \in ConcurrentCallers \ {p} :
    \E n \in ExtNames :
        /\ ManageRun(p, "enable", n) /\ Completed(p)
        /\ ManageRun(q, "disable", n) /\ Completed(q)
        /\ resp[p] = Success(InstalledMessage(n))
        /\ resp[q] = Success(DisabledMessage(n))
        /\ AllAnswersPositive(p)
        /\ AllAnswersPositive(q)
        /\ n \in index
        /\ n \notin registry

----------------------------------------------------------------------------
(* C18 *)

\* the positions of the log of p where the registry refused
FailedRegistryCalls(p) == {j \in Positions(p, IsRegistryCall) : ~calls[p][j].ok}

RegistryErrors(n) == {RegistryError, NotEnabledError(n), AlreadyEnabledError(n)}

\* a refusal of the registry is the last call of the run, which has ended
\* with the OperationFailed error carrying one of the registry's texts
RegistryFailureEndsRun ==
    \A p \in Callers : \A action \in ManageExtensionAction : \A n \in ExtNames :
        (ManageRun(p, action, n) /\ FailedRegistryCalls(p) # {}) =>
            /\ FailedRegistryCalls(p) = {Len(calls[p])}
            /\ Completed(p)
            /\ resp[p].is_error = TRUE
            /\ \E e \in RegistryErrors(n) :
                   resp[p].content = <<"Extension operation failed: ">> \o e
            /\ Cardinality(Positions(p, IsIndexUpdate)) <= 1

\* what the failed run leaves behind when its pre-sync update had been applied
RegistryFailureLeavesIndexAhead ==
    \A p \in Callers : \A n \in ExtNames :
        /\ (/\ ManageRun(p, "disable", n)
            /\ FailedRegistryCalls(p) # {}
            /\ InLog(p, Call("index", "remove", n, TRUE))
            /\ req[p].enabledAtStart) =>
               n \notin index /\ n \in registry
        /\ (/\ ManageRun(p, "enable", n)
            /\ FailedRegistryCalls(p) # {}
            /\ InLog(p, Call("index", "add", n, TRUE))
            /\ ~req[p].enabledAtStart) =>
               n \in index /\ n \notin registry

\* the step in which the registry refuses: its text is returned, and neither
\* the registry nor the index is touched
RegistryFailureStep ==
    \A p \in Callers :
        LET n == req[p].args.extension_name
            r == IF pc[p] = "remove" THEN remove_extension(n)
                 ELSE add_extension(n)
        IN (pc[p] \in {"remove", "install"} /\ pc'[p] # pc[p] /\ ~r.ok) =>
               /\ pc'[p] = "idle"
               /\ resp'[p] =
                      ErrorResult(<<"Extension operation failed: ">> \o r.error)
               /\ registry' = registry
               /\ index' = index

\* C18: when the registry change fails (the removal of a Disable, the install
\* of an Enable) the run ends with the OperationFailed error carrying the
\* registry's error text and issues no further index update: the pre-sync
\* update is not rolled back and the post-sync is not run. A failed Disable
\* of an enabled extension leaves the index without it while the registry
\* still has it; a failed Enable of an extension that was not enabled leaves
\* the index with it while the registry has not.
RegistryFailureNoRollback ==
    /\ []RegistryFailureEndsRun
    /\ []RegistryFailureLeavesIndexAhead
    /\ [][RegistryFailureStep]_vars

\* C18 witness: the removal of an enabled extension was refused after the
\* index had dropped it.
RegistryFailureWitness ==
    \E p \in Callers :
        /\ ManageRun(p, "disable", "developer")
        /\ Completed(p)
        /\ req[p].enabledAtStart
        /\ InLog(p, Call("index", "remove", "developer", TRUE))
        /\ FailedRegistryCalls(p) # {}
        /\ "developer" \notin index
        /\ "developer" \in registry

----------------------------------------------------------------------------
(* C19 *)

\* a finished manage_extensions run of p that resolved the Extension Manager
\* and never obtained a selector: the Tool Route Manager was missing, or its
\* router not functional, or it yielded no selector
SyncSkippedRun(p, action, n) ==
    /\ ManageRun(p, action, n)
    /\ Completed(p)
    /\ InLog(p, Upgrade("em", TRUE))
    /\ ~InLog(p, GetRouterToolSelector(TRUE))

\* the result as the catalog lookup and the registry call determine it
ResultOfRegistry(p, action, n) ==
    IF InLog(p, Call("catalog", "lookup", n, FALSE))
    THEN resp[p] = ErrorResult(<<"Extension operation failed: ">>
                                  \o NotFoundMessage(n))
    ELSE \E j \in Positions(p, IsRegistryCall) :
           IF calls[p][j].ok
           THEN resp[p] = Success(IF action = "disable" THEN DisabledMessage(n)
                                  ELSE InstalledMessage(n))
           ELSE \E e \in RegistryErrors(n) :
                    resp[p] = ErrorResult(<<"Extension operation failed: ">> \o e)

\* C19: a missing Tool Route Manager is not fatal to a manage_extensions run:
\* when it cannot be resolved, and likewise when its router is not functional
\* or yields no selector, the run issues no index update, still makes the
\* registry change (the removal, or the install of a catalogued extension),
\* and its result is that of the catalog lookup and the registry call.
MissingRouterNotFatal ==
    \A p \in Callers : \A action \in ManageExtensionAction : \A n \in ExtNames :
        SyncSkippedRun(p, action, n) =>
            /\ Positions(p, IsIndexUpdate) = {}
            /\ action = "disable" => Cardinality(Positions(p, IsRemoval)) = 1
            /\ action = "enable" =>
                   /\ Cardinality(Positions(p, IsLookup)) = 1
                   /\ Cardinality(Positions(p, IsInstall)) =
                          IF n \in Catalog THEN 1 ELSE 0
            /\ ResultOfRegistry(p, action, n)

\* C19 witness: no Tool Route Manager could be resolved and the extension was
\* installed all the same, the index untouched.
MissingRouterWitness ==
    \E p \in Callers :
        /\ SyncSkippedRun(p, "enable", "developer")
        /\ InLog(p, Upgrade("trm", FALSE))
        /\ resp[p] = Success(InstalledMessage("developer"))
        /\ "developer" \in registry
        /\ index = {}

----------------------------------------------------------------------------
(* C20 *)

IsSubmit(c) == c.target = "trm" /\ c.op = "submit"
IsResolve(c) == c.target = "trm" /\ c.op = "resolve"

\* the two phases in the log of a search_tools call, finished or not
SearchPhasesInOrder(p) ==
    /\ Cardinality(Positions(p, IsSubmit)) <= 1
    /\ Cardinality(Positions(p, IsResolve)) <= 1
    /\ \A j \in Positions(p, IsResolve) :
          j > 1 /\ calls[p][j - 1] = Call("trm", "submit", "", TRUE)
    /\ \A i \in Positions(p, IsSubmit) :
          ~calls[p][i].ok => i = Len(calls[p]) /\ Completed(p)

\* the result of a finished search_tools call that reached the manager
SearchResult(p) ==
    /\ InLog(p, Call("trm", "submit", "", FALSE)) =>
           resp[p] = ErrorResult(<<"Operation failed: ">> \o SubmitError)
    /\ InLog(p, Call("trm", "resolve", "", FALSE)) =>
           resp[p] = ErrorResult(<<"Operation failed: ">> \o ResolveError)
    /\ InLog(p, Call("trm", "resolve", "", TRUE)) =>
           resp[p] = Success(<<"tools">>)
    /\ ~resp[p].is_error =>
           /\ InLog(p, Call("trm", "submit", "", TRUE))
           /\ InLog(p, Call("trm", "resolve", "", TRUE))
    /\ Positions(p, IsSubmit) # {}

\* C20: search_tools is dispatched in two phases, the submission and the
\* resolution of the pending handle: a failure of either is returned as the
\* same OperationFailed kind with the underlying message unchanged, the
\* resolution is attempted only after a successful submission, and success
\* content is returned only when both phases succeeded.
SearchBothPhasesMapped ==
    \A p \in Callers :
        IsCallTool(p, "core", SEARCH_TOOLS_TOOL_NAME) =>
            /\ SearchPhasesInOrder(p)
            /\ (Completed(p) /\ InLog(p, Upgrade("trm", TRUE))) => SearchResult(p)

\* C20 witness: the submission was accepted and the resolution failed.
SearchResolutionFailedWitness ==
    \E p \in Callers :
        /\ IsCallTool(p, "core", SEARCH_TOOLS_TOOL_NAME)
        /\ Completed(p)
        /\ calls[p] = <<Upgrade("trm", TRUE), Call("trm", "submit", "", TRUE),
                        Call("trm", "resolve", "", FALSE)>>
        /\ resp[p] = ErrorResult(<<"Operation failed: ">> \o ResolveError)

----------------------------------------------------------------------------
(* C21 *)

\* the order in which get_tools declares the tools of the Core adapter
DeclarationOrder ==
    <<LIST_RESOURCES_TOOL_NAME, READ_RESOURCE_TOOL_NAME, SEARCH_TOOLS_TOOL_NAME>>

\* the tools of the declaration order that the live state makes visible
VisibleTools(resources, search) ==
    LET Keep(name) == IF name = SEARCH_TOOLS_TOOL_NAME THEN search ELSE resources
    IN SelectSeq(DeclarationOrder, Keep)

\* list_tools returns what the state it runs in determines
ListToolsOfLiveState ==
    \A p \in Callers :
        CoreListToolsReturns(p) =>
            resp'[p] = ListToolsResult(
                VisibleTools(ExtensionManagerLive /\ supports_resources,
                             ToolRouteManagerLive))

\* two calls in a row in the same state return the same sequence
ListToolsRepeatable ==
    \A p \in Callers :
        (/\ IsCoreListTools(p)
         /\ Completed(p)
         /\ base[p] # NoPrev
         /\ base[p].req.changesAtStart = changes) =>
            resp[p] = base[p].resp

\* the sequence is a subsequence of the declaration order, without duplicates
ListToolsInDeclarationOrder ==
    \A p \in Callers :
        (IsCoreListTools(p) /\ Completed(p)) =>
            /\ \E resources \in BOOLEAN, search \in BOOLEAN :
                   resp[p].tools = VisibleTools(resources, search)
            /\ \A name \in CoreToolNames : Count(resp[p].tools, name) <= 1

\* C21: list_tools of the Core adapter is a function of the live state at the
\* time of the call (Extension Manager live and supporting resources, Tool
\* Route Manager live), computed anew on every call: two calls in the same
\* state return the same sequence, a change of the state shows in the next
\* call, and the sequence is a subsequence of the declaration order
\* [list_resources, read_resource, search_tools] without duplicates.
ListToolsIsFunctionOfState ==
    /\ []ListToolsRepeatable
    /\ []ListToolsInDeclarationOrder
    /\ [][ListToolsOfLiveState]_vars

\* C21 witness: the Extension Manager went away between two calls in a row,
\* and the second call no longer lists the resource tools the first listed.
ListToolsReflectsChangeWitness ==
    \E p \in Callers :
        /\ IsCoreListTools(p)
        /\ Completed(p)
        /\ base[p] # NoPrev
        /\ Contains(base[p].resp.tools, READ_RESOURCE_TOOL_NAME)
        /\ ~Contains(resp[p].tools, READ_RESOURCE_TOOL_NAME)

----------------------------------------------------------------------------
(* C22 *)

\* the calls in the log of p that hand the Extension Manager a token
IsResourceCall(c) ==
    c.target = "em" /\ c.op \in {"list_resources", "read_resource"}

\* C22: for the resource operations the cancellation signal the Extension
\* Manager receives is the one the caller supplied, and the adapter creates
\* none of its own.
CancellationPassedThrough ==
    \A p \in Callers :
        \A i \in Positions(p, IsResourceCall) :
            /\ calls[p][i].token = req[p].token
            /\ calls[p][i].token # DefaultToken

----------------------------------------------------------------------------
(* C23 *)

\* p called manage_extensions without an argument object
AbsentArgumentsCall(p) ==
    /\ IsCallTool(p, "extmgr", MANAGE_EXTENSIONS_TOOL_NAME)
    /\ req[p].args.kind = "none"

\* p called manage_extensions with an object that is not a request
MismatchedArgumentsCall(p) ==
    /\ IsCallTool(p, "extmgr", MANAGE_EXTENSIONS_TOOL_NAME)
    /\ req[p].args.kind = "object"
    /\ \/ req[p].args.action \notin ManageExtensionAction
       \/ req[p].args.extension_name = ""

DeserializationPrefix == "Failed to deserialize parameters: "

\* the result of a call with invalid arguments, and what the call reached
InvalidArgumentsRejected ==
    \A p \in Callers :
        /\ AbsentArgumentsCall(p) =>
              /\ Completed(p)
              /\ resp[p] = ErrorResult(<<"Missing required parameter: ",
                                         "arguments">>)
              /\ calls[p] = << >>
              /\ held[p] = {}
        /\ MismatchedArgumentsCall(p) =>
              /\ Completed(p)
              /\ resp[p].is_error
              /\ resp[p].content # << >>
              /\ resp[p].content[1] = DeserializationPrefix
              /\ calls[p] = << >>
              /\ held[p] = {}

\* the step on which a call with invalid arguments is made
InvalidArgumentsStep ==
    \A p \in Callers :
        (/\ req'[p] # req[p] \/ resp'[p] # resp[p] \/ pc'[p] # pc[p]
         /\ AbsentArgumentsCall(p)' \/ MismatchedArgumentsCall(p)')
        => /\ registry' = registry
           /\ index' = index
           /\ active' = active

\* C23: manage_extensions validates its arguments before it touches a
\* backing component. An absent argument object yields MissingParameter, an
\* object that does not match the request schema yields
\* DeserializationError; in both cases no manager is resolved, no index
\* update is issued and the registry is unchanged.
ArgumentsValidatedFirst ==
    []InvalidArgumentsRejected /\ [][InvalidArgumentsStep]_vars

\* a call whose object names no known action was rejected while both
\* managers were live and an extension was enabled, so that a run would have
\* had something to resolve and to change
ArgumentsValidatedFirstWitness ==
    \E p \in Callers :
        /\ ExtensionManagerLive /\ ToolRouteManagerLive
        /\ MismatchedArgumentsCall(p) /\ Completed(p)
        /\ req[p].args.action = "restart"
        /\ req[p].args.extension_name \in registry
        /\ calls[p] = << >>

----------------------------------------------------------------------------
(* C24 *)

\* the awaits of a run in the order of the code; a finished run is last
Rank(at) ==
    CASE at = "pre_functional" -> 1
      [] at = "pre_selector" -> 2
      [] at = "pre_update" -> 3
      [] at \in {"remove", "install"} -> 4
      [] at = "post_functional" -> 5
      [] at = "post_selector" -> 6
      [] at = "post_update" -> 7
      [] OTHER -> 8

NumberOf(p, Test(_)) == Cardinality(Positions(p, Test))

\* what one run has asked of the backing components so far
RunCallBounds ==
    \A p \in Callers : \A action \in ManageExtensionAction : \A n \in ExtNames :
        ManageRun(p, action, n) =>
            /\ NumberOf(p, IsIndexUpdate) <= 2
            /\ NumberOf(p, IsLookup) <= 1
            /\ NumberOf(p, IsRegistryCall) <= 1
            /\ action = "disable" =>
                  /\ NumberOf(p, IsIndexUpdate) <= 1
                  /\ NumberOf(p, IsLookup) = 0
                  /\ NumberOf(p, IsInstall) = 0
            /\ action = "enable" => NumberOf(p, IsRemoval) = 0

\* a step of a run goes on to a later await or ends the run
RunAdvances ==
    \A p \in Callers :
        InManageRun(p) /\ calls'[p] # calls[p] =>
            /\ Rank(pc'[p]) > Rank(pc[p])
            /\ req'[p] = req[p]

\* a run that was started is over at some time, with a result or an error
\* result
RunEnds ==
    \A p \in Callers :
        InManageRun(p) ~>
            (Completed(p) /\ resp[p].transport = "ok"
               /\ IsCallTool(p, "extmgr", MANAGE_EXTENSIONS_TOOL_NAME))

\* C24: every manage_extensions run ends in a result (Done) or an error
\* result (Error), provided each call of a backing component returns. No
\* step is repeated; a run makes at most two index updates, one catalog
\* lookup and one registry mutation, a Disable run at most one index update
\* and one removal.
RunTerminatesWithinBounds ==
    []RunCallBounds /\ [][RunAdvances]_vars /\ RunEnds

\* an Enable run is over that used all it may use, and one of its index
\* updates failed
RunTerminatesWitness ==
    \E p \in Callers : \E n \in ExtNames :
        /\ ManageRun(p, "enable", n)
        /\ Completed(p)
        /\ resp[p].is_error
        /\ NumberOf(p, IsIndexUpdate) = 2
        /\ NumberOf(p, IsLookup) = 1
        /\ NumberOf(p, IsRegistryCall) = 1

----------------------------------------------------------------------------
(* C25 *)

ResourceToolNames == {LIST_RESOURCES_TOOL_NAME, READ_RESOURCE_TOOL_NAME}

Listed(p) == {resp[p].tools[i] : i \in 1..Len(resp[p].tools)}

\* what list_tools returns is recognized by call_tool of the same adapter,
\* and the Extension Manager adapter returns its two tools in every state
ListedNamesRecognized ==
    \A p \in Callers :
        req[p].op = "list_tools" /\ Completed(p) =>
            /\ Listed(p) \subseteq RecognizedNames(req[p].adapter)
            /\ req[p].adapter = "extmgr" =>
                  resp[p].tools = <<SEARCH_AVAILABLE_EXTENSIONS_TOOL_NAME,
                                    MANAGE_EXTENSIONS_TOOL_NAME>>

\* call_tool answers "Unknown tool" for no recognized name, and a tool of the
\* Extension Manager adapter that did not reach the manager is an error
RecognizedNamesDispatched ==
    \A p \in Callers :
        /\ req[p].op = "call_tool" /\ Completed(p)
        /\ req[p].name \in RecognizedNames(req[p].adapter)
        => /\ resp[p].content # << >>
           /\ resp[p].content[1] # "Unknown tool: "
           /\ req[p].adapter = "extmgr" /\ ~InLog(p, Upgrade("em", TRUE))
                 => resp[p].is_error

\* a call of a resource tool goes to a live Extension Manager whether or not
\* the tool is advertised
ResourceCallNotGated ==
    \A p \in Callers : \A name \in ResourceToolNames :
        BeginsCoreCall(p, name) /\ ExtensionManagerLive =>
            /\ pc'[p] = name
            /\ "em" \in held'[p]

\* C25: call_tool dispatch is not gated by tool visibility. Every name that
\* list_tools returns is recognized by call_tool, but not the other way
\* round: Core call_tool(list_resources / read_resource) is forwarded to a
\* live Extension Manager also when supports_resources is false, and the
\* Extension Manager adapter lists its two tools also when no Extension
\* Manager is reachable and every call of them is an error.
DispatchNotGatedByVisibility ==
    /\ []ListedNamesRecognized
    /\ []RecognizedNamesDispatched
    /\ [][ResourceCallNotGated]_vars

\* the Extension Manager answered a list_resources call although it supports
\* no resources, so that list_tools does not advertise the tool
DispatchNotGatedWitness ==
    \E p \in Callers : \E ok \in BOOLEAN :
        /\ IsCallTool(p, "core", LIST_RESOURCES_TOOL_NAME)
        /\ Completed(p)
        /\ ~supports_resources
        /\ InLog(p, CallWithToken("em", "list_resources", DefaultToken, ok))
        /\ LIST_RESOURCES_TOOL_NAME \notin
               {CoreGetTools(supports_resources, ToolRouteManagerLive)[i] :
                  i \in 1..Len(CoreGetTools(supports_resources,
                                            ToolRouteManagerLive))}

\* the Extension Manager adapter listed its tools with no manager reachable
ListedWithoutManager ==
    \E p \in Callers :
        /\ req[p].op = "list_tools" /\ req[p].adapter = "extmgr"
        /\ Completed(p)
        /\ ~ExtensionManagerLive

----------------------------------------------------------------------------
(* C26 *)

IsToolRouteManagerUpgrade(c) == c.target = "trm" /\ c.op = "upgrade"
IsFunctionalCheck(c) == c.op = "is_router_functional"
IsSelectorCheck(c) == c.op = "get_router_tool_selector"
IsSelectorFound(c) == c.op = "get_router_tool_selector" /\ c.ok

EnableRun(p) == \E n \in ExtNames : ManageRun(p, "enable", n)

SuccessfulEnable(p) ==
    /\ EnableRun(p)
    /\ Completed(p)
    /\ resp[p] = Success(InstalledMessage(req[p].args.extension_name))

\* the handle is resolved once; the router is asked before each sync; a
\* successful run has added to the index once for each check that found a
\* selector
EnableChecksRouterTwice ==
    \A p \in Callers :
        EnableRun(p) =>
            /\ NumberOf(p, IsToolRouteManagerUpgrade) <= 1
            /\ InManageRun(p) =>
                  ("trm" \in held[p]) = InLog(p, Upgrade("trm", TRUE))
            /\ NumberOf(p, IsFunctionalCheck) <= 2
            /\ NumberOf(p, IsSelectorCheck) <= NumberOf(p, IsFunctionalCheck)
            /\ \A i \in Positions(p, IsSelectorCheck) :
                  i > 1 /\ calls[p][i - 1] = IsRouterFunctional(TRUE)
            /\ \A i \in Positions(p, IsIndexUpdate) :
                  i > 1 /\ calls[p][i - 1] = GetRouterToolSelector(TRUE)
            /\ SuccessfulEnable(p) =>
                  /\ NumberOf(p, IsIndexAdd) = NumberOf(p, IsSelectorFound)
                  /\ NumberOf(p, IsIndexAdd) \in 0..2
                  /\ NumberOf(p, IsIndexRemove) = 0

\* each check reads the router as it is when the check is made, and the
\* handles of a run stay as they were resolved
EnableReadsRouterAfresh ==
    \A p \in Callers :
        /\ EnableRun(p) /\ Len(calls'[p]) = Len(calls[p]) + 1 =>
              LET c == calls'[p][Len(calls'[p])] IN
              /\ IsFunctionalCheck(c) => c.ok = routerFunctional
              /\ IsSelectorCheck(c) => c.ok = routerSelector
        /\ InManageRun(p) /\ InManageRun(p)' => held'[p] = held[p]

\* C26: an Enable run resolves the Tool Route Manager once and holds it for
\* the whole run, but reads router functionality and selector availability
\* before the pre-sync and again before the post-sync. A successful run has
\* issued one index add for each check that found a functional router with
\* a selector, 0, 1 or 2 in total, whatever the router did in between.
EnableSyncsPerCheck ==
    []EnableChecksRouterTwice /\ [][EnableReadsRouterAfresh]_vars

\* the router became functional during the run: the post-sync added to the
\* index although the pre-sync did not, and the run succeeded
PostSyncWithoutPreSyncWitness ==
    \E p \in Callers :
        /\ SuccessfulEnable(p)
        /\ calls[p][3] = IsRouterFunctional(FALSE)
        /\ NumberOf(p, IsIndexAdd) = 1
        /\ InLog(p, GetRouterToolSelector(TRUE))

\* the router stopped being functional during the run: the pre-sync added to
\* the index, the post-sync did not, and the run succeeded
PreSyncWithoutPostSync ==
    \E p \in Callers :
        /\ SuccessfulEnable(p)
        /\ calls[p][3] = IsRouterFunctional(TRUE)
        /\ NumberOf(p, IsIndexAdd) = 1
        /\ calls[p][Len(calls[p])].target = "router"
        /\ ~calls[p][Len(calls[p])].ok

----------------------------------------------------------------------------
(* C27 *)

\* a manage_extensions call of p has returned
ManageCallReturned(p) ==
    /\ IsCallTool(p, "extmgr", MANAGE_EXTENSIONS_TOOL_NAME)
    /\ Completed(p)

SuccessMessage(action, n) ==
    IF action = "disable" THEN DisabledMessage(n) ELSE InstalledMessage(n)

SuccessTexts ==
    {"' has been disabled successfully", "' has been installed successfully"}

NoSuccessText(content) ==
    \A i \in 1..Len(content) : content[i] \notin SuccessTexts

RegistryOpOf(action) == IF action = "disable" THEN "remove" ELSE "install"

\* what the log of the call says was done
ChangeMade(p) ==
    LET action == req[p].args.action
        n == req[p].args.extension_name
    IN
    /\ action \in ManageExtensionAction
    /\ InLog(p, Upgrade("em", TRUE))
    /\ NumberOf(p, IsRegistryCall) = 1
    /\ InLog(p, Call("registry", RegistryOpOf(action), n, TRUE))
    /\ action = "enable" => InLog(p, Call("catalog", "lookup", n, TRUE))
    /\ \A i \in Positions(p, IsIndexUpdate) : calls[p][i].ok

\* C27: a manage_extensions call returns a success result (the "disabled
\* successfully" or "installed successfully" message, is_error not true)
\* only if the Extension Manager was live, the registry call of the
\* requested action was made exactly once and succeeded, for Enable the
\* name was found in the catalog, and every index update of the run
\* succeeded; every other call returns is_error = TRUE and no success
\* message.
SuccessOnlyIfChangeMade ==
    \A p \in Callers :
        ManageCallReturned(p) =>
            /\ resp[p].transport = "ok"
            /\ ~resp[p].is_error <=> ChangeMade(p)
            /\ ~resp[p].is_error =>
                  resp[p].content = SuccessMessage(req[p].args.action,
                                                   req[p].args.extension_name)
            /\ resp[p].is_error => NoSuccessText(resp[p].content)

\* a Disable that updated the index and removed the extension returned the
\* success message
SuccessOnlyIfChangeMadeWitness ==
    \E p \in Callers : \E n \in ExtNames :
        /\ ManageCallReturned(p)
        /\ ManageRun(p, "disable", n)
        /\ ~resp[p].is_error
        /\ ChangeMade(p)
        /\ NumberOf(p, IsIndexRemove) = 1

\* an Enable whose install succeeded returned an error, because the index
\* update after it failed
InstalledButError ==
    \E p \in Callers : \E n \in ExtNames :
        /\ ManageCallReturned(p)
        /\ InLog(p, Call("registry", "install", n, TRUE))
        /\ resp[p].is_error

====
